---------------------------- MODULE Spec2Model ----------------------------
(***************************************************************************)
(* Navigation stack of RobotSim: NavigationSystem (occupancy grid, goal     *)
(* tracking, replanning, velocity command), ParticleFilter, PathPlanner     *)
(* (RRT), VectorFieldHistogram, and the Robot tick that drives them.        *)
(*                                                                         *)
(* Numbers.  The program computes in IEEE doubles.  The model computes in   *)
(* fixed point with three decimals: lengths in millimetres, angles in       *)
(* milliradians, probabilities, weights and speeds in thousandths.  Two     *)
(* doubles have no fixed-point counterpart and are kept as distinguished    *)
(* values: NaN (0/0 in ParticleFilter.normalizeWeights) and Infinity        *)
(* (Math.min of no arguments).  Every operation a NaN can reach is the      *)
(* lifted one (F...), which propagates NaN and compares false on it, as     *)
(* JavaScript does.                                                        *)
(***************************************************************************)
EXTENDS Integers, Sequences, FiniteSets, Bags, TLC

(***************************************************************************)
(* IEEE-754 special values                                                 *)
(***************************************************************************)
NaN == -2000000000
Infinity == 2000000000

IsNaN(a) == a = NaN

Abs(a) == IF a < 0 THEN -a ELSE a
Min2(a, b) == IF a < b THEN a ELSE b
Max2(a, b) == IF a > b THEN a ELSE b

\* a + b, a - b on doubles
FAdd(a, b) ==
  IF IsNaN(a) \/ IsNaN(b) THEN NaN
  ELSE IF a = Infinity \/ b = Infinity THEN Infinity
  ELSE a + b
FSub(a, b) ==
  IF IsNaN(a) \/ IsNaN(b) THEN NaN
  ELSE IF a = Infinity THEN Infinity
  ELSE a - b
\* a * b where b is in thousandths
FMul(a, b) ==
  IF IsNaN(a) \/ IsNaN(b) THEN NaN
  ELSE IF a = Infinity \/ b = Infinity THEN Infinity
  ELSE (a * b) \div 1000
\* a < b, a > b: false when either is NaN
FLt(a, b) == ~IsNaN(a) /\ ~IsNaN(b) /\ a < b
FGt(a, b) == ~IsNaN(a) /\ ~IsNaN(b) /\ a > b
\* Math.min(a, b), Math.max(a, b): NaN when either is NaN
FMin(a, b) == IF IsNaN(a) \/ IsNaN(b) THEN NaN ELSE Min2(a, b)
FMax(a, b) == IF IsNaN(a) \/ IsNaN(b) THEN NaN ELSE Max2(a, b)

(***************************************************************************)
(* Math.sqrt, Math.cos, Math.sin, Math.atan2, Math.exp in fixed point      *)
(***************************************************************************)
PI == 3142
TWO_PI == 6283
HALF_PI == 1571

RECURSIVE SqrtSearch(_, _, _)
SqrtSearch(n, lo, hi) ==
  IF lo >= hi THEN lo
  ELSE LET mid == (lo + hi + 1) \div 2
       IN IF mid * mid <= n THEN SqrtSearch(n, mid, hi)
          ELSE SqrtSearch(n, lo, mid - 1)

\* floor of the square root of n >= 0
ISqrt(n) == SqrtSearch(n, 0, Min2(n, 46340))

\* Math.sqrt(dx*dx + dy*dy) of two lengths
FHypot(dx, dy) ==
  IF IsNaN(dx) \/ IsNaN(dy) THEN NaN ELSE ISqrt(dx * dx + dy * dy)

\* the angle brought into [-PI, PI] by whole turns
RECURSIVE WrapAngle(_)
WrapAngle(a) ==
  IF a > PI THEN WrapAngle(a - TWO_PI)
  ELSE IF a < -PI THEN WrapAngle(a + TWO_PI)
  ELSE a

\* cos on [-PI/2, PI/2] (Bhaskara's rational approximation, error < 0.002)
CosCore(a) ==
  LET a2 == (a * a) \div 1000
      p2 == (PI * PI) \div 1000
  IN ((p2 - 4 * a2) * 1000) \div (p2 + a2)

ICos(a) ==
  LET w == Abs(WrapAngle(a))
  IN IF w <= HALF_PI THEN Min2(1000, Max2(0, CosCore(w)))
     ELSE -Min2(1000, Max2(0, CosCore(PI - w)))

ISin(a) == ICos(a - HALF_PI)

FCos(a) == IF IsNaN(a) THEN NaN ELSE ICos(a)

\* atan(z / 1000) for 0 <= z <= 1000 (error < 0.004)
AtanUnit(z) == (785 * z + (273 * z * (1000 - z)) \div 1000) \div 1000

IAtan2(y, x) ==
  IF x = 0 /\ y = 0 THEN 0
  ELSE IF Abs(x) >= Abs(y)
       THEN LET a == AtanUnit((Abs(y) * 1000) \div Abs(x))
            IN IF x > 0 THEN (IF y >= 0 THEN a ELSE -a)
               ELSE (IF y >= 0 THEN PI - a ELSE a - PI)
       ELSE LET a == AtanUnit((Abs(x) * 1000) \div Abs(y))
            IN IF y > 0 THEN (IF x >= 0 THEN HALF_PI - a ELSE HALF_PI + a)
               ELSE (IF x >= 0 THEN a - HALF_PI ELSE -HALF_PI - a)

FAtan2(y, x) == IF IsNaN(y) \/ IsNaN(x) THEN NaN ELSE IAtan2(y, x)

\* 2^k
RECURSIVE Pow2(_)
Pow2(k) == IF k <= 0 THEN 1 ELSE 2 * Pow2(k - 1)

\* 1000 * exp(-t / 1000) for t >= 0: exp(-t) = 2^-k * exp(-r), t = k ln 2 + r
ExpNeg(t) ==
  LET k == t \div 693
      r == t % 693
      r2 == (r * r) \div 1000
      r3 == (r2 * r) \div 1000
      r4 == (r3 * r) \div 1000
      p == 1000 - r + r2 \div 2 - r3 \div 6 + r4 \div 24
  IN IF k > 20 THEN 0 ELSE p \div Pow2(k)


(***************************************************************************)
(* Bounds of the model                                                     *)
(***************************************************************************)
\* cells per grid row and per grid column (600 x 600 in the program)
MapWidthCells == 24
MapHeightCells == 6
\* particles of the filter (100 in the program)
NumParticles == 4
\* iterations of the planner's main loop (maxIterations = 1000 in the program)
PlanIterations == 2

(***************************************************************************)
(* Occupancy grid (NavigationSystem.ts)                                    *)
(***************************************************************************)
\* defaultGridResolution = 0.05 m per cell
Resolution == 50

Pose(x, y, theta) == [x |-> x, y |-> y, theta |-> theta]
TVector(x, y, z) == [x |-> x, y |-> y, z |-> z]

\* Math.ceil(a / b) for a >= 0, b > 0
CeilDiv(a, b) == (a + b - 1) \div b

\* GridCell without lastUpdated (a wall-clock stamp nothing reads)
EmptyCell == [occupied |-> FALSE, probability |-> 500, cost |-> 0]

createEmptyMap(widthMm, heightMm) ==
  LET width == CeilDiv(widthMm, Resolution)
      height == CeilDiv(heightMm, Resolution)
  IN [cells |-> [rc \in (0 .. height - 1) \X (0 .. width - 1) |-> EmptyCell],
      resolution |-> Resolution,
      width |-> width,
      height |-> height,
      origin |-> [x |-> -(widthMm \div 2), y |-> -(heightMm \div 2)]]

\* Math.floor((v - origin) / resolution)
GridIndex(v, origin, resolution) ==
  IF IsNaN(v) THEN NaN ELSE (v - origin) \div resolution

worldToGrid(m, x, y) ==
  [row |-> GridIndex(y, m.origin.y, m.resolution),
   col |-> GridIndex(x, m.origin.x, m.resolution)]

InBounds(m, row, col) ==
  /\ ~IsNaN(row) /\ ~IsNaN(col)
  /\ row >= 0 /\ row < m.height /\ col >= 0 /\ col < m.width

\* the loop of bresenham from (x, y) with error err towards (x1, y1)
RECURSIVE BresenhamWalk(_, _, _, _, _, _, _, _, _)
BresenhamWalk(x, y, err, x1, y1, dx, dy, sx, sy) ==
  IF x = x1 /\ y = y1 THEN << [row |-> x, col |-> y] >>
  ELSE LET e2 == 2 * err
           stepX == e2 > -dy
           stepY == e2 < dx
           errA == IF stepX THEN err - dy ELSE err
           xA == IF stepX THEN x + sx ELSE x
           errB == IF stepY THEN errA + dx ELSE errA
           yB == IF stepY THEN y + sy ELSE y
       IN << [row |-> x, col |-> y] >>
            \o BresenhamWalk(xA, yB, errB, x1, y1, dx, dy, sx, sy)

bresenham(x0, y0, x1, y1) ==
  LET dx == Abs(x1 - x0)
      dy == Abs(y1 - y0)
      sx == IF x0 < x1 THEN 1 ELSE -1
      sy == IF y0 < y1 THEN 1 ELSE -1
  IN BresenhamWalk(x0, y0, dx - dy, x1, y1, dx, dy, sx, sy)

\* With a NaN start no comparison of the loop ever succeeds: x === x1 is
\* false, e2 > -dy and e2 < dx are false, and the loop pushes points forever.
bresenhamDiverges(x0, y0) == IsNaN(x0) \/ IsNaN(y0)

SignificantThreshold == 300

\* points.forEach of updateMap from index i on; acc = [cells, significantChange]
RECURSIVE UpdateRay(_, _, _, _)
UpdateRay(m, points, i, acc) ==
  IF i > Len(points) THEN acc
  ELSE LET point == points[i]
       IN IF InBounds(m, point.row, point.col)
          THEN LET cell == acc.cells[<<point.row, point.col>>]
                   oldProbability == cell.probability
                   newCell == IF i = Len(points)
                              THEN [cell EXCEPT !.probability = 950, !.occupied = TRUE]
                              ELSE [cell EXCEPT !.probability = 100, !.occupied = FALSE]
                   sig == Abs(oldProbability - newCell.probability) > SignificantThreshold
               IN UpdateRay(m, points, i + 1,
                     [cells |-> [acc.cells EXCEPT ![<<point.row, point.col>>] = newCell],
                      significantChange |-> acc.significantChange \/ sig,
                      hang |-> FALSE])
          ELSE UpdateRay(m, points, i + 1, acc)

\* an integration of one reading that does not look at its occupied flag
IntegrateReadingUnfiltered(m, pose, reading, acc) ==
  LET robotGrid == worldToGrid(m, pose.x, pose.y)
      hitGrid == worldToGrid(m, reading.point.x, reading.point.y)
  IN IF acc.hang THEN acc
     ELSE IF ~InBounds(m, hitGrid.row, hitGrid.col) THEN acc
     ELSE IF bresenhamDiverges(robotGrid.row, robotGrid.col)
     THEN [acc EXCEPT !.hang = TRUE]
     ELSE UpdateRay(m, bresenham(robotGrid.row, robotGrid.col,
                                 hitGrid.row, hitGrid.col), 1, acc)

\* one reading of the sensorData.forEach of updateMap
IntegrateReading(m, pose, reading, acc) ==
  LET robotGrid == worldToGrid(m, pose.x, pose.y)
      hitGrid == worldToGrid(m, reading.point.x, reading.point.y)
  IN IF acc.hang \/ ~reading.occupied THEN acc
     ELSE IF ~InBounds(m, hitGrid.row, hitGrid.col) THEN acc
     ELSE IF bresenhamDiverges(robotGrid.row, robotGrid.col)
     THEN [acc EXCEPT !.hang = TRUE]
     ELSE UpdateRay(m, bresenham(robotGrid.row, robotGrid.col,
                                 hitGrid.row, hitGrid.col), 1, acc)

\* readings lo .. hi in order (split in halves to keep the recursion shallow)
RECURSIVE IntegrateReadings(_, _, _, _, _, _)
IntegrateReadings(m, pose, sensorData, lo, hi, acc) ==
  IF lo > hi THEN acc
  ELSE IF lo = hi THEN IntegrateReading(m, pose, sensorData[lo], acc)
  ELSE LET mid == (lo + hi) \div 2
           first == IntegrateReadings(m, pose, sensorData, lo, mid, acc)
       IN IF first.hang THEN first
          ELSE IntegrateReadings(m, pose, sensorData, mid + 1, hi, first)

\* an integration that averages the probability of each cell it writes with
\* the value the cell had
IntegrateAveraging(m, pose, sensorData) ==
  LET r == IntegrateReadings(m, pose, sensorData, 1, Len(sensorData),
              [cells |-> m.cells, significantChange |-> FALSE, hang |-> FALSE])
  IN [r EXCEPT !.cells = [rc \in DOMAIN m.cells |->
        [r.cells[rc] EXCEPT !.probability = (@ + m.cells[rc].probability) \div 2]]]

\* an integration that writes the probability of a free cell into the cells
\* it marks occupied
IntegrateHitAsFree(m, pose, sensorData) ==
  LET r == IntegrateReadings(m, pose, sensorData, 1, Len(sensorData),
              [cells |-> m.cells, significantChange |-> FALSE, hang |-> FALSE])
  IN [r EXCEPT !.cells = [rc \in DOMAIN m.cells |->
        [r.cells[rc] EXCEPT !.probability = IF r.cells[rc].occupied THEN 100 ELSE @]]]

\* lines 124-194 of updateMap: the grid after the batch, whether a touched cell
\* changed by more than the threshold, and whether the ray walk never ends
Integrate(m, pose, sensorData) ==
  IntegrateReadings(m, pose, sensorData, 1, Len(sensorData),
     [cells |-> m.cells, significantChange |-> FALSE, hang |-> FALSE])

distanceBetween(a, b) == ISqrt((a.x - b.x) * (a.x - b.x) + (a.y - b.y) * (a.y - b.y))

\* one sample of a segment of checkPathValidity is in collision
SampleBlocked(m, start, end, step, steps) ==
  LET px == start.x + ((end.x - start.x) * step) \div steps
      py == start.y + ((end.y - start.y) * step) \div steps
      gridPos == worldToGrid(m, px, py)
  IN /\ InBounds(m, gridPos.row, gridPos.col)
     /\ LET cell == m.cells[<<gridPos.row, gridPos.col>>]
        IN cell.occupied \/ cell.probability > 500

\* steps = 0 when start = end: t = 0/0 is NaN, the sample is NaN and its cell
\* is out of bounds, so the segment passes
SegmentBlocked(m, start, end) ==
  LET steps == CeilDiv(distanceBetween(start, end), m.resolution * 2)
  IN steps > 0 /\ \E step \in 0 .. steps : SampleBlocked(m, start, end, step, steps)

checkPathValidity(m, path) ==
  IF Len(path) < 2 THEN FALSE
  ELSE \A i \in 1 .. Len(path) - 1 : ~SegmentBlocked(m, path[i], path[i + 1])

(***************************************************************************)
(* ParticleFilter (ParticleFilter.ts)                                      *)
(*                                                                         *)
(* A value of Math.random() is a number of thousandths in 0 .. 999; the     *)
(* draws an operation consumes are passed to it, one triple or one number   *)
(* per particle.                                                           *)
(***************************************************************************)
MotionNoiseX == 50
MotionNoiseY == 50
MotionNoiseTheta == 100
MeasurementNoise == 100
SpreadRadius == 500
\* exp(-t) is 0 in doubles for t > 745.133
ExpUnderflow == 745133

\* (Math.random() - 0.5) * scale
Centered(r, scale) == ((r - 500) * scale) \div 1000

initializeParticles(pose, spreadRadius, draws) ==
  [i \in 1 .. NumParticles |->
     [pose |-> Pose(pose.x + Centered(draws[i][1], spreadRadius),
                    pose.y + Centered(draws[i][2], spreadRadius),
                    pose.theta + Centered(draws[i][3], (PI * 100) \div 1000)),
      weight |-> 1000 \div NumParticles]]

\* a predict that halves the weight of each particle it moves
predictHalvingWeights(particles, deltaPosition, deltaRotation, draws) ==
  [i \in 1 .. NumParticles |->
     [pose |-> Pose(FAdd(particles[i].pose.x, deltaPosition.x),
                    FAdd(particles[i].pose.y, deltaPosition.z),
                    FAdd(particles[i].pose.theta, deltaRotation)),
      weight |-> particles[i].weight \div 2]]

predict(particles, deltaPosition, deltaRotation, draws) ==
  [i \in 1 .. NumParticles |->
     LET particle == particles[i]
         noise == [x |-> Centered(draws[i][1], MotionNoiseX),
                   y |-> Centered(draws[i][2], MotionNoiseY),
                   theta |-> Centered(draws[i][3], MotionNoiseTheta)]
     IN [pose |-> Pose(FAdd(FAdd(particle.pose.x, deltaPosition.x), noise.x),
                       FAdd(FAdd(particle.pose.y, deltaPosition.z), noise.y),
                       FAdd(FAdd(particle.pose.theta, deltaRotation), noise.theta)),
         weight |-> particle.weight]]

expectedMeasurement(pose, point) ==
  FHypot(FSub(point.x, pose.x), FSub(point.z, pose.y))

\* exp(-e^2 / 2 sigma^2) / sqrt(2 pi sigma^2), sigma in mm: sqrt(2 pi) = 2.5066
gaussianProbability(error, sigma) ==
  IF IsNaN(error) THEN NaN
  ELSE LET t == (error * error) \div ((2 * sigma * sigma) \div 1000)
       IN (ExpNeg(Min2(t, 30000)) * 1000) \div ((sigma * 2507) \div 1000)

\* the sum of the numbers of the sequence f: NaN when a term is; else the
\* positive terms less the negative ones, each counted as a bag of that many
\* copies
SeqSum(f) ==
  LET g == << >> \o f
  IN IF \E i \in 1 .. Len(g) : IsNaN(g[i]) THEN NaN
     ELSE BagCardinality([i \in {j \in 1 .. Len(g) : g[j] > 0} |-> g[i]])
          - BagCardinality([i \in {j \in 1 .. Len(g) : g[j] < 0} |-> -g[i]])

\* totalError of one particle
TotalError(pose, measurements) ==
  SeqSum([i \in 1 .. Len(measurements) |->
            LET expected == expectedMeasurement(pose, measurements[i].point)
                error == IF IsNaN(expected) THEN NaN
                         ELSE Abs(expected - measurements[i].distance)
            IN gaussianProbability(error, MeasurementNoise)])

\* A weight between line 88 and normalizeWeights is the double
\* weight * exp(-totalError).  It is held as the pair (w, t) of the old weight
\* and the exponent, so that the range of a double is kept: the product is NaN
\* when either factor is, and 0 when w is 0 or exp(-t) underflows.
ProductIsNaN(w, t) == IsNaN(w) \/ IsNaN(t)
ProductIsZero(w, t) == ~ProductIsNaN(w, t) /\ (w = 0 \/ t > ExpUnderflow)

RECURSIVE SeqMin(_, _)
SeqMin(f, i) == IF i > Len(f) THEN Infinity ELSE Min2(f[i], SeqMin(f, i + 1))

\* normalizeWeights on the products (w[i], t[i]): each divided by their sum.
\* The sum of doubles is NaN when a term is, and 0 when every term is 0; x / NaN
\* and 0 / 0 are NaN.  Otherwise the common factor exp(-tmin) cancels in the
\* quotient.
normalizeWeights(w, t) ==
  LET n == Len(w)
      anyNaN == \E i \in 1 .. n : ProductIsNaN(w[i], t[i])
      allZero == \A i \in 1 .. n : ProductIsZero(w[i], t[i])
      tmin == SeqMin([i \in 1 .. n |-> IF ProductIsZero(w[i], t[i]) THEN Infinity ELSE t[i]], 1)
      u == [i \in 1 .. n |->
              IF ProductIsZero(w[i], t[i]) THEN 0
              ELSE (w[i] * ExpNeg(Min2(t[i] - tmin, 30000))) \div 1000]
      totalWeight == SeqSum(u)
  IN IF anyNaN \/ allZero THEN [i \in 1 .. n |-> NaN]
     ELSE [i \in 1 .. n |-> (u[i] * 1000) \div totalWeight]

\* 1 / sum of squared weights, in thousandths of a particle
getEffectiveParticleCount(particles) ==
  LET sq == [i \in 1 .. Len(particles) |->
               FMul(particles[i].weight, particles[i].weight)]
      sumSquaredWeights == SeqSum(sq)
  IN IF IsNaN(sumSquaredWeights) THEN NaN
     ELSE IF sumSquaredWeights = 0 THEN Infinity
     ELSE 1000000 \div sumSquaredWeights

\* cumulativeWeights of resample
RECURSIVE CumulativeWeights(_, _)
CumulativeWeights(particles, i) ==
  IF i = 0 THEN << >>
  ELSE LET acc == CumulativeWeights(particles, i - 1)
           last == IF Len(acc) = 0 THEN 0 ELSE acc[Len(acc)]
       IN Append(acc, FAdd(last, particles[i].weight))

\* cumulativeWeights.findIndex(w => w > random): 0 stands for -1 (none)
FindIndex(cumulativeWeights, random) ==
  IF \E i \in 1 .. Len(cumulativeWeights) : FGt(cumulativeWeights[i], random)
  THEN CHOOSE i \in 1 .. Len(cumulativeWeights) :
         /\ FGt(cumulativeWeights[i], random)
         /\ \A j \in 1 .. i - 1 : ~FGt(cumulativeWeights[j], random)
  ELSE 0

\* resample: threw when an index is -1 (particles[-1] is undefined and its
\* pose is read)
resample(particles, draws) ==
  LET cumulativeWeights == CumulativeWeights(particles, Len(particles))
      index == [i \in 1 .. NumParticles |-> FindIndex(cumulativeWeights, draws[i])]
  IN IF \E i \in 1 .. NumParticles : index[i] = 0
     THEN [particles |-> particles, threw |-> TRUE]
     ELSE [particles |-> [i \in 1 .. NumParticles |->
                            [pose |-> particles[index[i]].pose,
                             weight |-> 1000 \div NumParticles]],
           threw |-> FALSE]

\* lines 72-92 of update: the particles with the weights multiplied by
\* exp(-totalError) and normalized
updateWeights(particles, measurements) ==
  LET poses == {particles[i].pose : i \in 1 .. Len(particles)}
      totalError == [pose \in poses |-> TotalError(pose, measurements)] @@ << >>
      t == << >> \o [i \in 1 .. Len(particles) |-> totalError[particles[i].pose]]
      w == [i \in 1 .. Len(particles) |-> particles[i].weight]
      nw == normalizeWeights(w, t)
  IN [i \in 1 .. Len(particles) |-> [particles[i] EXCEPT !.weight = nw[i]]]

\* the test of line 95 on the normalized particles
resampleNeeded(normalized) ==
  FLt(getEffectiveParticleCount(normalized), (NumParticles * 1000) \div 2)

\* update: the new particles, and whether it threw
update(particles, measurements, draws) ==
  LET normalized == updateWeights(particles, measurements)
  IN IF resampleNeeded(normalized)
     THEN resample(normalized, draws)
     ELSE [particles |-> normalized, threw |-> FALSE]

\* a weighted sum: the products are summed before the thousandths are dropped
WeightedSum(values, particles) ==
  LET total == SeqSum([i \in 1 .. Len(particles) |->
                         IF IsNaN(values[i]) \/ IsNaN(particles[i].weight) THEN NaN
                         ELSE values[i] * particles[i].weight])
  IN IF IsNaN(total) THEN NaN ELSE total \div 1000

getEstimatedPose(particles) ==
  LET n == Len(particles)
      x == WeightedSum([i \in 1 .. n |-> particles[i].pose.x], particles)
      y == WeightedSum([i \in 1 .. n |-> particles[i].pose.y], particles)
      theta == WeightedSum([i \in 1 .. n |-> particles[i].pose.theta], particles)
  IN Pose(x, y,
          IF IsNaN(theta) THEN NaN ELSE IAtan2(ISin(theta), ICos(theta)))

(***************************************************************************)
(* PathPlanner (unnamed/part_005)                                          *)
(*                                                                         *)
(* planPath draws from Math.random() and reads the clock; PlanPath is the  *)
(* set of paths it can return.  A draw of sampleFreeSpace is a pair of      *)
(* thousandths.                                                            *)
(***************************************************************************)
StepSize == 500
PlannerMargin == 2

\* isValidNode: node.x is a column and node.y a row.  Every comparison with
\* NaN is false: a NaN node passes the bounds test and reads no cell.
isValidNode(node, m) ==
  IF IsNaN(node.x) \/ IsNaN(node.y) THEN TRUE
  ELSE IF node.x < 0 \/ node.x >= m.width \/ node.y < 0 \/ node.y >= m.height
  THEN FALSE
  ELSE \A dy \in -PlannerMargin .. PlannerMargin :
         \A dx \in -PlannerMargin .. PlannerMargin :
           LET checkY == node.y + dy
               checkX == node.x + dx
           IN (checkY >= 0 /\ checkY < m.height /\ checkX >= 0 /\ checkX < m.width)
                => LET cell == m.cells[<<checkY, checkX>>]
                   IN ~(cell.occupied \/ cell.probability > 500)

\* the planner's own worldToGrid: x is the column, y the row
plannerWorldToGrid(pose, m) ==
  [x |-> GridIndex(pose.x, m.origin.x, m.resolution),
   y |-> GridIndex(pose.y, m.origin.y, m.resolution)]

ValidAt(x, y, m) == isValidNode(plannerWorldToGrid([x |-> x, y |-> y], m), m)

\* the point sampleFreeSpace computes from two values of Math.random()
SamplePoint(draw, m) ==
  [x |-> m.origin.x + (draw[1] * m.width * m.resolution) \div 1000,
   y |-> m.origin.y + (draw[2] * m.height * m.resolution) \div 1000]

\* sampleFreeSpace returns a drawn point: one that is valid, or, after 100
\* invalid draws, any
sampleFreeSpace(m, draws) == {SamplePoint(d, m) : d \in draws}

\* findNearestNode: the index of the first node at the least distance
findNearestNode(nodes, target) ==
  CHOOSE i \in 1 .. Len(nodes) :
    /\ \A j \in 1 .. Len(nodes) :
         distanceBetween(nodes[i], target) <= distanceBetween(nodes[j], target)
    /\ \A j \in 1 .. i - 1 :
         distanceBetween(nodes[j], target) > distanceBetween(nodes[i], target)

\* extend: parent is the index of from in nodes
extend(from, fromIndex, to) ==
  LET dist == distanceBetween(from, to)
      theta == IAtan2(to.y - from.y, to.x - from.x)
  IN IF dist < StepSize
     THEN [x |-> to.x, y |-> to.y, parent |-> fromIndex]
     ELSE [x |-> from.x + (StepSize * ICos(theta)) \div 1000,
           y |-> from.y + (StepSize * ISin(theta)) \div 1000,
           parent |-> fromIndex]

\* isValidPath: steps = ceil(dist / (resolution / 4)); with steps = 0 the one
\* sample is 0/0 = NaN, which isValidNode accepts
isValidPath(from, to, m) ==
  LET steps == CeilDiv(distanceBetween(from, to) * 4, m.resolution)
  IN \A i \in 0 .. steps :
       steps > 0 =>
         ValidAt(from.x + ((to.x - from.x) * i) \div steps,
                 from.y + ((to.y - from.y) * i) \div steps, m)

smoothPath(path) ==
  IF Len(path) <= 2 THEN path
  ELSE [i \in 1 .. Len(path) |->
          LET a == IF i < Len(path) THEN path[i] ELSE path[i - 1]
              b == IF i < Len(path) THEN path[i + 1] ELSE path[i]
          IN [path[i] EXCEPT !.theta = IAtan2(b.y - a.y, b.x - a.x)]]

\* the nodes from the root's child down to node i (the root itself is left out:
\* the loop of extractPath stops at the node without parent)
RECURSIVE Ancestry(_, _)
Ancestry(nodes, i) ==
  IF nodes[i].parent = 0 THEN << >>
  ELSE Append(Ancestry(nodes, nodes[i].parent), Pose(nodes[i].x, nodes[i].y, 0))

\* an extractPath that leaves out the start pose
extractPathFromTree(nodes, endIndex, start, goal) ==
  smoothPath(Ancestry(nodes, endIndex) \o <<goal>>)

extractPath(nodes, endIndex, start, goal) ==
  smoothPath(<<start>> \o Ancestry(nodes, endIndex) \o <<goal>>)

\* extractPath and smoothPath on objects: heap is the sequence of the Pose
\* objects that exist, an object is known by its index, a path is a sequence
\* of indices.  {...pose} appends a new object; p.theta = v writes in place.
RECURSIVE SmoothLoop(_, _, _, _)
SmoothLoop(heap, path, i, smoothed) ==
  IF i > Len(path) THEN [heap |-> heap, path |-> smoothed]
  ELSE LET prev == heap[path[i - 1]]
           current == heap[path[i]]
           theta == IAtan2(current.y - prev.y, current.x - prev.x)
           written == [heap EXCEPT ![smoothed[Len(smoothed)]].theta = theta]
           pushed == Append(written, [written[path[i]] EXCEPT !.theta = theta])
       IN SmoothLoop(pushed, path, i + 1, Append(smoothed, Len(pushed)))

smoothPathOnHeap(heap, path) ==
  IF Len(path) <= 2 THEN [heap |-> heap, path |-> path]
  ELSE SmoothLoop(heap, path, 2, <<path[1]>>)

\* an extractPath that puts the start and goal objects themselves in the path
extractPathAliasing(heap, nodes, endNode, start, goal) ==
  LET made == Ancestry(nodes, endNode)
      withNodes == heap \o made
      between == [k \in 1 .. Len(made) |-> Len(heap) + k]
  IN smoothPathOnHeap(withNodes, <<start>> \o between \o <<goal>>)

\* start and goal are the indices of the caller's objects
extractPathOnHeap(heap, nodes, endNode, start, goal) ==
  LET withGoal == Append(heap, heap[goal])
      made == Ancestry(nodes, endNode)
      withNodes == withGoal \o made
      between == [k \in 1 .. Len(made) |-> Len(withGoal) + k]
      withStart == Append(withNodes, withNodes[start])
  IN smoothPathOnHeap(withStart, <<Len(withStart)>> \o between \o <<Len(withGoal)>>)

\* iterations i .. PlanIterations - 1 of the main loop of planPath
RECURSIVE PlanLoop(_, _, _, _, _, _)
PlanLoop(nodes, i, start, goal, m, draws) ==
  IF i >= PlanIterations THEN {<< >>}
  ELSE {<< >>} \cup
       UNION { LET nearest == findNearestNode(nodes, target)
                   newNode == extend(nodes[nearest], nearest, target)
               IN IF ~isValidPath(nodes[nearest], newNode, m)
                  THEN PlanLoop(nodes, i + 1, start, goal, m, draws)
                  ELSE IF distanceBetween(newNode, goal) < (StepSize * 3) \div 2
                  THEN {extractPath(Append(nodes, newNode), Len(nodes) + 1, start, goal)}
                  ELSE PlanLoop(Append(nodes, newNode), i + 1, start, goal, m, draws)
             : target \in {[x |-> goal.x, y |-> goal.y]} \cup sampleFreeSpace(m, draws) }

\* a planPath that does not test the goal before growing the tree
planPathGoalUntested(start, goal, m, draws) ==
  IF IsNaN(start.x) \/ IsNaN(start.y) THEN {<< >>}
  ELSE IF ~isValidNode(plannerWorldToGrid(start, m), m) THEN {<< >>}
  ELSE PlanLoop(<<[x |-> start.x, y |-> start.y, parent |-> 0]>>, 0, start, goal, m, draws)

\* planPath: the empty path when start or goal is invalid, when the clock
\* runs out (any iteration) or the iterations do; else a path found.  With a
\* NaN start every distance is NaN, no node is ever near the goal and the
\* iterations run out.
planPath(start, goal, m, draws) ==
  IF IsNaN(start.x) \/ IsNaN(start.y) THEN {<< >>}
  ELSE IF \/ ~isValidNode(plannerWorldToGrid(start, m), m)
          \/ ~isValidNode(plannerWorldToGrid(goal, m), m)
  THEN {<< >>}
  ELSE PlanLoop(<<[x |-> start.x, y |-> start.y, parent |-> 0]>>, 0, start, goal, m, draws)

(***************************************************************************)
(* VectorFieldHistogram (VectorFieldHistogram.ts)                          *)
(***************************************************************************)
NumSectors == 72
SafeDistance == 1000
MaxRange == 5000
Alpha == 500
Beta == 300
ValleyThreshold == 300
Kernel == <<100, 200, 400, 200, 100>>

\* floor(((angle + 2 pi) % 2 pi) / sectorSize), sectorSize = 2 pi / numSectors
angleToSector(angle) ==
  LET normalized == (angle + TWO_PI) % TWO_PI
  IN (normalized * NumSectors) \div TWO_PI

\* sector * sectorSize + sectorSize / 2
sectorToAngle(sector) == ((2 * sector + 1) * TWO_PI) \div (2 * NumSectors)

\* angleDifference: a - b brought into [-pi, pi]; NaN passes both loops
angleDifference(a, b) ==
  IF IsNaN(a) \/ IsNaN(b) THEN NaN ELSE WrapAngle(a - b)

\* the density each reading adds, and the sector it adds it to
ReadingSector(reading) == angleToSector(IAtan2(reading.point.z, reading.point.x))
\* atan2 of a NaN point is NaN, the sector is NaN, and histogram[NaN] += weight
\* changes no sector
ReadingHasSector(reading) == ~IsNaN(reading.point.z) /\ ~IsNaN(reading.point.x)
ReadingWeight(reading) == 1000 - Min2((reading.distance * 1000) \div SafeDistance, 1000)

\* the polar histogram, sectors 0 .. numSectors - 1
BuildHistogram(sensorData) ==
  LET used == << >> \o
                [i \in 1 .. Len(sensorData) |->
                   IF sensorData[i].distance > MaxRange \/ ~ReadingHasSector(sensorData[i])
                   THEN [sector |-> -1, weight |-> 0]
                   ELSE [sector |-> ReadingSector(sensorData[i]),
                         weight |-> ReadingWeight(sensorData[i])]]
      hit == {used[i].sector : i \in 1 .. Len(used)}
  IN [s \in 0 .. NumSectors - 1 |->
        IF s \notin hit THEN 0
        ELSE SeqSum([i \in 1 .. Len(used) |->
                       IF used[i].sector = s THEN used[i].weight ELSE 0])]

smoothHistogram(histogram) ==
  [i \in 0 .. NumSectors - 1 |->
     LET term == [k \in 1 .. Len(Kernel) |->
                    histogram[(i + (k - 1) - 2 + NumSectors) % NumSectors] * Kernel[k]]
     IN SeqSum(term) \div 1000]

\* the valley sectors, in increasing order
IsValley(histogram, i) ==
  /\ histogram[i] < ValleyThreshold
  /\ histogram[i] <= histogram[(i - 1 + NumSectors) % NumSectors]
  /\ histogram[i] <= histogram[(i + 1) % NumSectors]

findValleys(histogram) == {i \in 0 .. NumSectors - 1 : IsValley(histogram, i)}

ValleyCost(valley, targetAngle, currentAngle) ==
  LET targetDiff == angleDifference(valley, targetAngle)
      currentDiff == angleDifference(valley, currentAngle)
  IN IF IsNaN(targetDiff) \/ IsNaN(currentDiff) THEN NaN
     ELSE (Alpha * Abs(targetDiff) + Beta * Abs(currentDiff)) \div 1000

\* a selectBestValley whose test is cost <= minCost: the last valley of least
\* cost
selectLastBestValley(valleys, targetAngle, currentAngle) ==
  IF valleys = {} THEN currentAngle
  ELSE LET cost == [v \in valleys |->
                      ValleyCost(sectorToAngle(v), targetAngle, currentAngle)]
           least == CHOOSE c \in {cost[v] : v \in valleys} :
                      \A v \in valleys : c <= cost[v]
           best == {v \in valleys : cost[v] = least}
       IN sectorToAngle(CHOOSE v \in best : \A u \in best : v >= u)

\* selectBestValley over the valley sectors: the first valley of least cost;
\* with a NaN cost no valley is ever better and the first valley stays
selectBestValley(valleys, targetAngle, currentAngle) ==
  IF valleys = {} THEN currentAngle
  ELSE LET first == CHOOSE v \in valleys : \A u \in valleys : v <= u
           cost == [v \in valleys |->
                      ValleyCost(sectorToAngle(v), targetAngle, currentAngle)]
           least == CHOOSE c \in {cost[v] : v \in valleys} :
                      \A v \in valleys : c <= cost[v]
           best == {v \in valleys : cost[v] = least}
       IN IF IsNaN(cost[first]) THEN sectorToAngle(first)
          ELSE sectorToAngle(CHOOSE v \in best : \A u \in best : v <= u)

findBestDirection(sensorData, targetAngle, currentVelocity) ==
  LET histogram == BuildHistogram(sensorData)
      smoothed == smoothHistogram(histogram)
      valleys == findValleys(smoothed)
  IN selectBestValley(valleys, targetAngle,
                      FAtan2(currentVelocity.z, currentVelocity.x))

(***************************************************************************)
(* Sensors (LidarSensor in llm/chatgpt.ts, DepthCameraSensor in            *)
(* unnamed/part_002).  What the scene holds is an input: the planar points  *)
(* the lidar rays hit, and the byte the depth buffer holds.                *)
(***************************************************************************)
RayHeight == 500
DepthWidth == 320
DepthHeight == 240
DepthStride == 16
DepthMaxRange == 10000
DepthFov == 1200

\* LidarSensor.update: one reading per ray that hits; a ray from a NaN origin
\* hits nothing
lidarUpdate(robotPosition, hits) ==
  IF IsNaN(robotPosition.x) \/ IsNaN(robotPosition.z) THEN << >>
  ELSE [i \in 1 .. Len(hits) |->
          [point |-> TVector(hits[i].x, hits[i].z, robotPosition.y + RayHeight),
           distance |-> ISqrt((hits[i].x - robotPosition.x) * (hits[i].x - robotPosition.x)
                              + (hits[i].z - robotPosition.z) * (hits[i].z - robotPosition.z)),
           occupied |-> TRUE]]

\* the sampled pixels of a frame, row by row
DepthPixels ==
  LET cols == CeilDiv(DepthWidth, DepthStride)
      rows == CeilDiv(DepthHeight, DepthStride)
  IN [i \in 1 .. rows * cols |->
        [x |-> ((i - 1) % cols) * DepthStride, y |-> ((i - 1) \div cols) * DepthStride]]

\* DepthCameraSensor.update on a frame whose every byte is `byte`; byte < 0
\* stands for no depth data (readPixels gave nothing)
depthUpdate(robotPosition, robotRotation, byte) ==
  LET depth == (byte * DepthMaxRange) \div 255
      fovX == (DepthFov * DepthWidth) \div DepthHeight
  IN IF byte < 0 \/ ~(depth < DepthMaxRange) THEN << >>
     ELSE [i \in 1 .. Len(DepthPixels) |->
             LET angleX == (((DepthPixels[i].x * 1000) \div DepthWidth - 500) * fovX) \div 1000
                 angleY == (((DepthPixels[i].y * 1000) \div DepthHeight - 500) * DepthFov) \div 1000
                 heading == FAdd(robotRotation.y, angleX)
             IN [point |-> TVector(FAdd(robotPosition.x, FMul(depth, FCos(heading))),
                                   FAdd(robotPosition.y, FMul(depth, ISin(angleY))),
                                   FAdd(robotPosition.z, FMul(depth, FCos(FSub(heading, HALF_PI))))),
                 distance |-> depth,
                 occupied |-> TRUE]]

(***************************************************************************)
(* NavigationSystem (NavigationSystem.ts)                                  *)
(*                                                                         *)
(* An optional value (currentGoal, path, lastError, tolerance) is << >>     *)
(* when undefined and <<v>> when set to v.                                 *)
(***************************************************************************)
GOAL_POSITION_TOLERANCE == 100
GOAL_ANGLE_TOLERANCE == 100
EmergencyDistance == 300
WaypointReached == 300
MaxLinearSpeed == 500
MaxAngularSpeed == 1000

\* navigationState as the constructor leaves it (currentPose and currentMap
\* are references to the fields of the same name)
InitialNavigationState ==
  [isNavigating |-> FALSE, currentGoal |-> << >>, path |-> << >>,
   status |-> "idle", lastError |-> << >>]

\* an updateNavigationStatus that keeps the last error when it is given none
updateNavigationStatusKeepingError(ns, status, error) ==
  [ns EXCEPT !.status = status, !.lastError = IF error = << >> THEN @ ELSE error]

updateNavigationStatus(ns, status, error) ==
  [ns EXCEPT !.status = status, !.lastError = error]

normalizeAngle(angle) == IF IsNaN(angle) THEN NaN ELSE WrapAngle(angle)

isGoalReached(pose, goal) ==
  LET distanceToGoal == FHypot(FSub(pose.x, goal.pose.x), FSub(pose.y, goal.pose.y))
      diff == normalizeAngle(FSub(pose.theta, goal.pose.theta))
      angleDiff == IF IsNaN(diff) THEN NaN ELSE Abs(diff)
      positionTolerance == IF goal.tolerance = << >> THEN GOAL_POSITION_TOLERANCE
                           ELSE goal.tolerance[1].position
      angleTolerance == IF goal.tolerance = << >> THEN GOAL_ANGLE_TOLERANCE
                        ELSE goal.tolerance[1].orientation
  IN FLt(distanceToGoal, positionTolerance) /\ FLt(angleDiff, angleTolerance)

\* getSensorMeasurements: the occupied readings of the lidar, then of the
\* depth camera, taken at the estimated pose
getSensorMeasurements(pose, scene) ==
  SelectSeq(lidarUpdate(TVector(pose.x, 0, pose.y), scene.hits)
              \o depthUpdate(TVector(pose.x, 0, pose.y), TVector(0, pose.theta, 0), scene.byte),
            LAMBDA reading : reading.occupied)

\* setGoal with the path planPath returned
setGoal(ns, goal, path) ==
  LET planning == [updateNavigationStatus(ns, "planning", << >>)
                     EXCEPT !.currentGoal = <<goal>>, !.isNavigating = TRUE]
  IN IF Len(path) = 0
     THEN updateNavigationStatus(planning, "failed", <<"No path found to goal">>)
     ELSE [planning EXCEPT !.path = <<path>>]

\* Math.min(...sensorData.map(s => s.distance)): Infinity of no readings
MinDistance(sensorData) ==
  LET distances == {sensorData[i].distance : i \in 1 .. Len(sensorData)}
  IN IF distances = {} THEN Infinity
     ELSE CHOOSE d \in distances : \A e \in distances : d <= e

\* what getVelocityCommand returns without moving, and the path it leaves
Stop(ns) ==
  [threw |-> FALSE, emergency |-> FALSE, followed |-> FALSE,
   linear |-> 0, angular |-> 0, path |-> ns.path]

\* a getVelocityCommand that removes the first waypoint however far it is
followPathShiftingAlways(ns, pose, sensorData, minDistance) ==
  IF ns.path = << >> \/ Len(ns.path[1]) = 0 THEN [Stop(ns) EXCEPT !.threw = TRUE]
  ELSE
    LET target == ns.path[1][1]
        dx == FSub(target.x, pose.x)
        dy == FSub(target.y, pose.y)
        distance == FHypot(dx, dy)
        targetAngle == FAtan2(dy, dx)
        safeAngle == findBestDirection(sensorData, targetAngle, TVector(dx, 0, dy))
        shifted == Tail(ns.path[1])
        angleDiff == normalizeAngle(FSub(safeAngle, pose.theta))
        speedFactor == FMin(1000, FMax(100, FSub(minDistance, EmergencyDistance)))
        angularSpeed == FMul(angleDiff, 2000)
        turnFactor == FCos(angleDiff)
        linearSpeed == FMul(FMul(FMin(FMul(distance, 500), MaxLinearSpeed), speedFactor),
                            turnFactor)
    IN IF Len(shifted) = 0 THEN [Stop(ns) EXCEPT !.path = <<shifted>>, !.followed = TRUE]
       ELSE [threw |-> FALSE, emergency |-> FALSE, followed |-> TRUE,
             linear |-> FMax(0, linearSpeed),
             angular |-> FMin(FMax(angularSpeed, -MaxAngularSpeed), MaxAngularSpeed),
             path |-> <<shifted>>]

\* getVelocityCommand from line 374 on: towards the first waypoint.  threw:
\* reading path[0] of an undefined path, or .x of an undefined target.
followPath(ns, pose, sensorData, minDistance) ==
  IF ns.path = << >> \/ Len(ns.path[1]) = 0 THEN [Stop(ns) EXCEPT !.threw = TRUE]
  ELSE
    LET target == ns.path[1][1]
        dx == FSub(target.x, pose.x)
        dy == FSub(target.y, pose.y)
        distance == FHypot(dx, dy)
        targetAngle == FAtan2(dy, dx)
        safeAngle == findBestDirection(sensorData, targetAngle, TVector(dx, 0, dy))
        shifted == IF FLt(distance, WaypointReached) THEN Tail(ns.path[1]) ELSE ns.path[1]
        angleDiff == normalizeAngle(FSub(safeAngle, pose.theta))
        speedFactor == FMin(1000, FMax(100, FSub(minDistance, EmergencyDistance)))
        angularSpeed == FMul(angleDiff, 2000)
        turnFactor == FCos(angleDiff)
        linearSpeed == FMul(FMul(FMin(FMul(distance, 500), MaxLinearSpeed), speedFactor),
                            turnFactor)
    IN IF Len(shifted) = 0 THEN [Stop(ns) EXCEPT !.path = <<shifted>>, !.followed = TRUE]
       ELSE [threw |-> FALSE, emergency |-> FALSE, followed |-> TRUE,
             linear |-> FMax(0, linearSpeed),
             angular |-> FMin(FMax(angularSpeed, -MaxAngularSpeed), MaxAngularSpeed),
             path |-> <<shifted>>]

\* a getVelocityCommand without the emergency stop of lines 367-372
velocityCommandWithoutStop(ns, pose, sensorData) ==
  followPath(ns, pose, sensorData, MinDistance(sensorData))

\* getVelocityCommand from line 366 on, with the readings the await gave
velocityCommand(ns, pose, sensorData) ==
  LET minDistance == MinDistance(sensorData)
  IN IF minDistance < EmergencyDistance THEN [Stop(ns) EXCEPT !.emergency = TRUE]
     ELSE followPath(ns, pose, sensorData, minDistance)

\* updateMap: the results it can have (planPath draws).  replanned: the path
\* was found invalid and planPath ran; planned: what planPath returned.
updateMap(m, pose, ns, sensorData, draws) ==
  LET r == Integrate(m, pose, sensorData)
      m2 == [m EXCEPT !.cells = r.cells]
      same == [map |-> m2, ns |-> ns, hang |-> FALSE, replanned |-> FALSE, planned |-> << >>]
  IN IF r.hang THEN {[same EXCEPT !.hang = TRUE]}
     ELSE IF r.significantChange /\ ns.isNavigating /\ ns.currentGoal # << >>
     THEN IF checkPathValidity(m2, IF ns.path = << >> THEN << >> ELSE ns.path[1])
          THEN {same}
          ELSE { [same EXCEPT !.replanned = TRUE, !.planned = newPath,
                              !.ns = IF Len(newPath) > 0
                                     THEN [ns EXCEPT !.path = <<newPath>>]
                                     ELSE [ns EXCEPT !.isNavigating = FALSE, !.path = << >>]]
                 : newPath \in planPath(pose, ns.currentGoal[1].pose, m2, draws) }
     ELSE {same}

(***************************************************************************)
(* Robot (sensors/types.ts) driving the NavigationSystem                   *)
(*                                                                         *)
(* An async method is cut at the awaits that wait for the scene: the       *)
(* sensors' update.  updatePose is started by updateNavigation without     *)
(* await, so its continuation is a frame of poseCalls that resumes at any   *)
(* later moment.  The synchronous code between two awaits is one step.      *)
(***************************************************************************)
MaxTicks == 1
MaxGoalCalls == 2

\* where the robot is constructed, and where the physics body can be read back
StartPosition == TVector(-400, 1000, 0)
Positions == {StartPosition, TVector(400, 1000, 0)}
Rotations == {TVector(0, 0, 0)}

\* the goals callers set: one a step away from where the robot starts, with a
\* tolerance of its own; one across the map; one outside the map
GoalNear == [pose |-> Pose(-350, 0, 0),
             tolerance |-> <<[position |-> 100, orientation |-> 100]>>]
GoalInside == [pose |-> Pose(400, 0, 0), tolerance |-> << >>]
GoalOutside == [pose |-> Pose(2000, 0, 0), tolerance |-> << >>]
Goals == {GoalNear, GoalInside, GoalOutside}

\* what the scene shows the sensors during one update: the points the lidar
\* rays hit and the byte of the depth buffer (255: nothing within range), or a
\* sensor raising
Obstacle == [x |-> -200, z |-> 0]
Open == [throws |-> FALSE, hits |-> << >>, byte |-> 255]
Scenes == {Open,
           [throws |-> FALSE, hits |-> <<Obstacle>>, byte |-> 255],
           [throws |-> TRUE, hits |-> << >>, byte |-> 255]}
\* a wall that fills the depth camera's view, 0.78 m away
Wall == [throws |-> FALSE, hits |-> << >>, byte |-> 20]
WallScenes == {Open, Wall}

\* the values of Math.random(), in thousandths: the middle value for the
\* particle filter, two points for the planner's samples
MotionDraws == [i \in 1 .. NumParticles |-> <<500, 500, 500>>]
ResampleDraws == [i \in 1 .. NumParticles |-> 500]
PlannerDraws == {<<500, 500>>, <<250, 500>>}

VARIABLES
  position,         \* Robot.position
  rotation,         \* Robot.rotation
  map,              \* NavigationSystem.map
  currentPose,      \* NavigationSystem.currentPose
  navigationState,  \* NavigationSystem.navigationState
  particles,        \* ParticleFilter.particles
  lastPosition,     \* NavigationSystem.lastPosition
  poseCalls,        \* the updatePose calls suspended at line 288
  tick,             \* where updateFromPhysics / updateNavigation stands
  ticks,            \* updateFromPhysics calls started
  goalCalls,        \* setGoal calls made
  halted,           \* the thread is inside a loop that never ends
  pathGoal,         \* history: the goal navigationState.path was planned for
  ret               \* history: what the last step did

vars == <<position, rotation, map, currentPose, navigationState, particles,
          lastPosition, poseCalls, tick, ticks, goalCalls, halted, pathGoal, ret>>

NoPose == Pose(0, 0, 0)
Idle == [pc |-> "idle", ctor |-> FALSE, sensorPose |-> NoPose]

NoRet ==
  [op |-> "none", threw |-> FALSE, sensorFailed |-> FALSE, planned |-> << >>,
   reached |-> FALSE, replanned |-> FALSE, emergency |-> FALSE, followed |-> FALSE,
   linear |-> 0, angular |-> 0, minDistance |-> Infinity, poseInFlight |-> FALSE,
   position |-> StartPosition, before |-> InitialNavigationState]

\* the synchronous part of updatePose (lines 276-288): predict, then the
\* sensors are asked at the current estimate
updatePoseStart(pos, rot) ==
  LET deltaPosition == TVector(pos.x - lastPosition.x, pos.y - lastPosition.y,
                               pos.z - lastPosition.z)
      deltaRotation == FSub(rot.y, currentPose.theta)
  IN predict(particles, deltaPosition, deltaRotation, MotionDraws)

\* new Robot(StartPosition, ...): the NavigationSystem is constructed and
\* updateNavigation() runs to its first await, with an updatePose in flight
Init ==
  /\ position = StartPosition
  /\ rotation \in Rotations
  /\ map = createEmptyMap(MapWidthCells * Resolution, MapHeightCells * Resolution)
  /\ currentPose = Pose(StartPosition.x, StartPosition.z, 0)
  /\ navigationState = InitialNavigationState
  /\ particles = predict(initializeParticles(Pose(StartPosition.x, StartPosition.z, 0),
                                             SpreadRadius, MotionDraws),
                         TVector(0, 0, 0), FSub(rotation.y, 0), MotionDraws)
  /\ lastPosition = StartPosition
  /\ poseCalls = <<[position |-> StartPosition, tick |-> 0,
                    sensorPose |-> Pose(StartPosition.x, StartPosition.z, 0)]>>
  /\ tick = [pc |-> "nav_await", ctor |-> TRUE, sensorPose |-> NoPose]
  /\ ticks = 0
  /\ goalCalls = 0
  /\ halted = FALSE
  /\ pathGoal = << >>
  /\ ret = NoRet

\* updateFromPhysics up to the await inside updateNavigation
TickStart ==
  /\ ~halted /\ tick.pc = "idle"
  /\ ticks < MaxTicks
  /\ particles' = updatePoseStart(position, rotation)
  /\ poseCalls' = Append(poseCalls, [position |-> position, tick |-> ticks + 1,
                                      sensorPose |-> currentPose])
  /\ tick' = [pc |-> "nav_await", ctor |-> FALSE, sensorPose |-> NoPose]
  /\ ticks' = ticks + 1
  /\ ret' = NoRet
  /\ UNCHANGED <<position, rotation, map, currentPose, navigationState, lastPosition,
                 goalCalls, halted, pathGoal>>

\* a suspended updatePose resumes with the sensors' answer (lines 288-320)
PoseResume(k, scene) ==
  LET frame == poseCalls[k]
      sensorData == getSensorMeasurements(frame.sensorPose, scene)
      updated == IF Len(sensorData) > 0 THEN update(particles, sensorData, ResampleDraws)
                 ELSE [particles |-> particles, threw |-> FALSE]
      estimatedPose == getEstimatedPose(updated.particles)
      reached == /\ navigationState.isNavigating
                 /\ navigationState.currentGoal # << >>
                 /\ isGoalReached(estimatedPose, navigationState.currentGoal[1])
      base == [NoRet EXCEPT !.op = "updatePose", !.position = frame.position]
  IN /\ ~halted
     /\ poseCalls' = SubSeq(poseCalls, 1, k - 1) \o SubSeq(poseCalls, k + 1, Len(poseCalls))
     /\ IF scene.throws
        THEN /\ ret' = [base EXCEPT !.threw = TRUE, !.sensorFailed = TRUE]
             /\ UNCHANGED <<particles, currentPose, lastPosition, navigationState, pathGoal>>
        ELSE IF updated.threw
        THEN /\ ret' = [base EXCEPT !.threw = TRUE]
             /\ particles' = updated.particles
             /\ UNCHANGED <<currentPose, lastPosition, navigationState, pathGoal>>
        ELSE /\ particles' = updated.particles
             /\ currentPose' = estimatedPose
             /\ lastPosition' = frame.position
             /\ navigationState' = IF reached
                                   THEN [navigationState EXCEPT !.isNavigating = FALSE,
                                                                !.path = << >>]
                                   ELSE navigationState
             /\ pathGoal' = IF reached THEN << >> ELSE pathGoal
             /\ ret' = [base EXCEPT !.reached = reached]
     /\ UNCHANGED <<position, rotation, map, tick, ticks, goalCalls, halted>>

\* updateNavigation resumes from Promise.all (lines 215-232) and runs
\* updateMap on the readings taken at the robot's position; a sensor raising
\* rejects updateNavigation and with it updateFromPhysics
NavResume(scene) ==
  LET sensorData == lidarUpdate(position, scene.hits)
                      \o depthUpdate(position, rotation, scene.byte)
      base == [NoRet EXCEPT !.op = "updateMap",
                            !.poseInFlight = \E k \in 1 .. Len(poseCalls) :
                                                poseCalls[k].tick = ticks]
  IN /\ ~halted /\ tick.pc = "nav_await"
     /\ IF scene.throws
        THEN /\ tick' = Idle
             /\ ret' = [NoRet EXCEPT !.op = "updateNavigation", !.threw = TRUE,
                                     !.sensorFailed = TRUE]
             /\ UNCHANGED <<map, navigationState, halted, pathGoal>>
        ELSE \E r \in updateMap(map, currentPose, navigationState, sensorData, PlannerDraws) :
               /\ map' = r.map
               /\ navigationState' = r.ns
               /\ halted' = r.hang
               /\ pathGoal' = IF r.replanned /\ Len(r.planned) = 0 THEN << >>
                              ELSE IF r.replanned THEN navigationState.currentGoal
                              ELSE pathGoal
               /\ tick' = IF tick.ctor THEN Idle ELSE [tick EXCEPT !.pc = "vel_call"]
               /\ ret' = [base EXCEPT !.replanned = r.replanned, !.planned = r.planned]
     /\ UNCHANGED <<position, rotation, currentPose, particles, lastPosition, poseCalls,
                    ticks, goalCalls>>

\* getVelocityCommand up to its await (lines 356-364)
VelStart ==
  /\ ~halted /\ tick.pc = "vel_call"
  /\ IF \/ ~navigationState.isNavigating
        \/ navigationState.path = << >>
        \/ Len(navigationState.path[1]) = 0
     THEN /\ tick' = [tick EXCEPT !.pc = "apply"]
          /\ ret' = [NoRet EXCEPT !.op = "velocity", !.before = navigationState]
     ELSE /\ tick' = [tick EXCEPT !.pc = "vel_await", !.sensorPose = currentPose]
          /\ ret' = NoRet
  /\ UNCHANGED <<position, rotation, map, currentPose, navigationState, particles,
                 lastPosition, poseCalls, ticks, goalCalls, halted, pathGoal>>

\* getVelocityCommand resumes with the sensors' answer (lines 364-422)
VelResume(scene) ==
  LET sensorData == getSensorMeasurements(tick.sensorPose, scene)
      c == velocityCommand(navigationState, currentPose, sensorData)
      base == [NoRet EXCEPT !.op = "velocity", !.before = navigationState,
                            !.minDistance = IF scene.throws THEN Infinity
                                            ELSE MinDistance(sensorData)]
  IN /\ ~halted /\ tick.pc = "vel_await"
     /\ IF scene.throws
        THEN /\ tick' = Idle
             /\ ret' = [base EXCEPT !.threw = TRUE, !.sensorFailed = TRUE]
             /\ UNCHANGED navigationState
        ELSE IF c.threw
        THEN /\ tick' = Idle
             /\ ret' = [base EXCEPT !.threw = TRUE]
             /\ UNCHANGED navigationState
        ELSE /\ tick' = [tick EXCEPT !.pc = "apply", !.sensorPose = NoPose]
             /\ navigationState' = [navigationState EXCEPT !.path = c.path]
             /\ ret' = [base EXCEPT !.emergency = c.emergency, !.followed = c.followed,
                                    !.linear = c.linear, !.angular = c.angular]
     /\ UNCHANGED <<position, rotation, map, currentPose, particles, lastPosition,
                    poseCalls, ticks, goalCalls, halted, pathGoal>>

\* the rest of updateFromPhysics (lines 136-166): the command goes to the
\* physics body and the body's position and rotation are read back
Apply(pos, rot) ==
  /\ ~halted /\ tick.pc = "apply"
  /\ position' = pos
  /\ rotation' = rot
  /\ tick' = Idle
  /\ ret' = NoRet
  /\ UNCHANGED <<map, currentPose, navigationState, particles, lastPosition, poseCalls,
                 ticks, goalCalls, halted, pathGoal>>

\* setNavigationGoal(goal) -> NavigationSystem.setGoal(goal), between any two
\* steps
SetGoal(goal) ==
  /\ ~halted /\ goalCalls < MaxGoalCalls
  /\ \E path \in planPath(currentPose, goal.pose, map, PlannerDraws) :
       /\ navigationState' = setGoal(navigationState, goal, path)
       /\ pathGoal' = IF Len(path) = 0 THEN pathGoal ELSE <<goal>>
       /\ ret' = [NoRet EXCEPT !.op = "setGoal", !.planned = path]
  /\ goalCalls' = goalCalls + 1
  /\ UNCHANGED <<position, rotation, map, currentPose, particles, lastPosition,
                 poseCalls, tick, ticks, halted>>

Next ==
  \/ TickStart
  \/ \E k \in 1 .. Len(poseCalls), scene \in Scenes : PoseResume(k, scene)
  \/ \E scene \in Scenes : NavResume(scene)
  \/ VelStart
  \/ \E scene \in Scenes : VelResume(scene)
  \/ \E pos \in Positions, rot \in Rotations : Apply(pos, rot)
  \/ \E goal \in Goals : SetGoal(goal)

Spec == Init /\ [][Next]_vars

\* the same robot in front of a wall, sent to the goal inside the map
WallNext ==
  \/ TickStart
  \/ \E k \in 1 .. Len(poseCalls), scene \in WallScenes : PoseResume(k, scene)
  \/ \E scene \in WallScenes : NavResume(scene)
  \/ VelStart
  \/ \E scene \in WallScenes : VelResume(scene)
  \/ \E pos \in Positions, rot \in Rotations : Apply(pos, rot)
  \/ SetGoal(GoalInside)

WallSpec == Init /\ [][WallNext]_vars

(***************************************************************************)
(* PathPlanner.planPath on its own: setGoal called once or twice on a map  *)
(* that holds one obstacle cell, from a start the caller chooses            *)
(***************************************************************************)
\* a cell as updateMap leaves the cell a ray ends in
OccupiedCell == [EmptyCell EXCEPT !.probability = 950, !.occupied = TRUE]

MapWithObstacle(row, col) ==
  LET m == createEmptyMap(MapWidthCells * Resolution, MapHeightCells * Resolution)
  IN [m EXCEPT !.cells[<<row, col>>] = OccupiedCell]

\* the empty map, and the maps with one obstacle on the row of the start or
\* two rows below it
PlannerMaps ==
  {createEmptyMap(MapWidthCells * Resolution, MapHeightCells * Resolution)}
    \cup {MapWithObstacle(row, col) : row \in {1, 3}, col \in 0 .. MapWidthCells - 1}

PlannerStarts == {Pose(-400, 0, 0), Pose(-350, 50, 0)}

PlannerInit ==
  /\ map \in PlannerMaps
  /\ currentPose \in PlannerStarts
  /\ position = TVector(currentPose.x, 1000, currentPose.y)
  /\ rotation = TVector(0, 0, 0)
  /\ navigationState = InitialNavigationState
  /\ particles = initializeParticles(currentPose, SpreadRadius, MotionDraws)
  /\ lastPosition = position
  /\ poseCalls = << >>
  /\ tick = Idle
  /\ ticks = 0
  /\ goalCalls = 0
  /\ halted = FALSE
  /\ pathGoal = << >>
  /\ ret = NoRet

PlannerNext == \E goal \in Goals : SetGoal(goal)

PlannerSpec == PlannerInit /\ [][PlannerNext]_vars

(***************************************************************************)
(* The control loop in an empty world: every await of a tick is answered   *)
(* at once and in order (updatePose, updateMap, getVelocityCommand), the    *)
(* sensors read nothing, and the body moves as the command says for 0.1 s   *)
(***************************************************************************)
DriveStarts == {Pose(-400, 0, 0), Pose(-400, 50, 0), Pose(-300, 0, 0)}

DriveInit ==
  /\ map = createEmptyMap(MapWidthCells * Resolution, MapHeightCells * Resolution)
  /\ currentPose \in DriveStarts
  /\ position = TVector(currentPose.x, 1000, currentPose.y)
  /\ rotation = TVector(0, 0, 0)
  /\ navigationState = InitialNavigationState
  /\ particles = initializeParticles(currentPose, SpreadRadius, MotionDraws)
  /\ lastPosition = position
  /\ poseCalls = << >>
  /\ tick = Idle
  /\ ticks = 0
  /\ goalCalls = 0
  /\ halted = FALSE
  /\ pathGoal = << >>
  /\ ret = NoRet

\* one updateFromPhysics run to its end: updatePose (lines 274-320) with no
\* measurements, updateMap with no readings, getVelocityCommand, and the
\* command integrated by the body (ticks counts the runs of Spec only)
DriveTick ==
  LET predicted == updatePoseStart(position, rotation)
      estimatedPose == getEstimatedPose(predicted)
      reached == /\ navigationState.isNavigating
                 /\ navigationState.currentGoal # << >>
                 /\ isGoalReached(estimatedPose, navigationState.currentGoal[1])
      posed == IF reached
               THEN [navigationState EXCEPT !.isNavigating = FALSE, !.path = << >>]
               ELSE navigationState
  IN /\ ~halted /\ tick.pc = "idle" /\ poseCalls = << >>
     /\ \E r \in updateMap(map, estimatedPose, posed, << >>, PlannerDraws) :
          LET stopped == \/ ~r.ns.isNavigating
                         \/ r.ns.path = << >>
                         \/ Len(r.ns.path[1]) = 0
              c == IF stopped THEN Stop(r.ns)
                   ELSE velocityCommand(r.ns, estimatedPose, << >>)
          IN /\ map' = r.map
             /\ halted' = r.hang
             /\ navigationState' = [r.ns EXCEPT !.path = c.path]
             /\ position' = TVector(position.x + FMul(c.linear, ICos(rotation.y)) \div 10,
                                    position.y,
                                    position.z + FMul(c.linear, ISin(rotation.y)) \div 10)
             /\ rotation' = [rotation EXCEPT !.y = rotation.y + c.angular \div 10]
             /\ ret' = [NoRet EXCEPT !.op = "tick", !.reached = reached,
                                     !.followed = c.followed,
                                     !.linear = c.linear, !.angular = c.angular,
                                     !.position = position, !.before = navigationState]
     /\ particles' = predicted
     /\ currentPose' = estimatedPose
     /\ lastPosition' = position
     /\ pathGoal' = IF reached THEN << >> ELSE pathGoal
     /\ UNCHANGED <<poseCalls, tick, ticks, goalCalls>>

\* the caller sets one goal, at any moment
DriveSetGoal(goal) == goalCalls = 0 /\ SetGoal(goal)

DriveNext ==
  \/ DriveTick
  \/ \E goal \in Goals : DriveSetGoal(goal)

\* the loop keeps running
DriveSpec == DriveInit /\ [][DriveNext]_vars /\ WF_vars(DriveTick)

(***************************************************************************)
(* NavigationSystem.updateMap on its own: any sequence of calls, each with *)
(* the readings of the lidar in a scene, while the robot stands still       *)
(***************************************************************************)
\* the points the lidar hits: one ahead of the robot, one beyond it on the
\* same ray, one to the side, one behind the robot
HitAhead == [x |-> -200, z |-> 0]
HitBeyond == [x |-> 0, z |-> 0]
HitAside == [x |-> -200, z |-> 100]
HitBehind == [x |-> -500, z |-> -100]
HitLists == {<<HitAhead>>, <<HitBeyond>>, <<HitAside>>, <<HitBehind>>,
             <<HitAhead, HitBeyond>>, <<HitBeyond, HitAhead>>, <<HitAside, HitBeyond>>}

\* navigationState as setGoal(GoalInside) leaves it on the empty map, and as
\* getVelocityCommand leaves it once the waypoints before the goal are popped
NavigatingInside ==
  setGoal(InitialNavigationState, GoalInside,
          <<Pose(-400, 0, 0), Pose(-300, 0, 0), GoalInside.pose>>)
NavigatingLastWaypoint == [NavigatingInside EXCEPT !.path = <<<<GoalInside.pose>>>>]

MapInit ==
  /\ map = createEmptyMap(MapWidthCells * Resolution, MapHeightCells * Resolution)
  /\ currentPose \in {Pose(-400, 0, 0), Pose(-400, 50, 0)}
  /\ position = TVector(currentPose.x, 1000, currentPose.y)
  /\ rotation = TVector(0, 0, 0)
  /\ navigationState \in {InitialNavigationState, NavigatingInside, NavigatingLastWaypoint}
  /\ particles = initializeParticles(currentPose, SpreadRadius, MotionDraws)
  /\ lastPosition = position
  /\ poseCalls = << >>
  /\ tick = Idle
  /\ ticks = 0
  /\ goalCalls = 0
  /\ halted = FALSE
  /\ pathGoal = IF navigationState.currentGoal = << >> THEN << >> ELSE <<GoalInside>>
  /\ ret = NoRet

\* updateMap(sensorData); ret keeps the batch and the navigation state the
\* call found.  UpdateMapCall: with the readings of the lidar.
UpdateMapWith(sensorData) ==
     /\ ~halted
     /\ \E r \in updateMap(map, currentPose, navigationState, sensorData, PlannerDraws) :
          /\ map' = r.map
          /\ navigationState' = r.ns
          /\ halted' = r.hang
          /\ pathGoal' = IF r.replanned /\ Len(r.planned) = 0 THEN << >>
                         ELSE IF r.replanned THEN navigationState.currentGoal
                         ELSE pathGoal
          /\ ret' = [op |-> "updateMap", batch |-> sensorData, replanned |-> r.replanned,
                     planned |-> r.planned, before |-> navigationState]
     /\ UNCHANGED <<position, rotation, currentPose, particles, lastPosition, poseCalls,
                    tick, ticks>>

UpdateMapCall(hits) ==
  UpdateMapWith(lidarUpdate(position, hits)) /\ UNCHANGED goalCalls

\* batches of readings updateMap skips: readings that are not occupied, and
\* readings whose point is outside the grid
Unoccupied(reading) == [reading EXCEPT !.occupied = FALSE]
SkippedBatches(pos) ==
  LET ahead == lidarUpdate(pos, <<HitAhead>>)[1]
      aside == lidarUpdate(pos, <<HitAside>>)[1]
      outside == lidarUpdate(pos, <<[x |-> 5000, z |-> 0]>>)[1]
      below == lidarUpdate(pos, <<[x |-> 0, z |-> -200]>>)[1]
  IN {<<Unoccupied(ahead)>>, <<outside>>, <<Unoccupied(aside), outside>>,
      <<below, Unoccupied(ahead), Unoccupied(outside)>>}

SkippedCall(batch) == UpdateMapWith(batch) /\ UNCHANGED goalCalls

MapNext ==
  \/ \E hits \in HitLists : UpdateMapCall(hits)
  \/ \E batch \in SkippedBatches(position) : SkippedCall(batch)

MapSpec == MapInit /\ [][MapNext]_vars

(***************************************************************************)
(* ParticleFilter on its own: any sequence of predict and update calls, up *)
(* to MaxFilterCalls of them (counted in ticks)                            *)
(***************************************************************************)
MaxFilterCalls == 3

\* the draws of the constructor: every particle at the pose, or spread in x
InitialDraws ==
  {MotionDraws, [i \in 1 .. NumParticles |-> <<(i * 333) % 1000, 500, 500>>]}

\* the draws of resample: the middle value, the largest value, spread values
ResampleDrawSets ==
  {ResampleDraws, [i \in 1 .. NumParticles |-> 999],
   [i \in 1 .. NumParticles |-> (i * 250) % 1000]}

\* a reading of the point 0.2 m ahead of the starting pose, and a frame of the
\* depth camera filled with such readings
PointReading ==
  [point |-> TVector(-200, 500, 0), distance |-> 200, occupied |-> TRUE]
MeasurementSets ==
  {<<PointReading>>, [i \in 1 .. Len(DepthPixels) |-> PointReading]}

FilterMoves == {TVector(0, 0, 0), TVector(100, 0, 0), TVector(0, 0, 100)}

FilterInit ==
  /\ map = createEmptyMap(MapWidthCells * Resolution, MapHeightCells * Resolution)
  /\ currentPose = Pose(-400, 0, 0)
  /\ position = TVector(currentPose.x, 1000, currentPose.y)
  /\ rotation = TVector(0, 0, 0)
  /\ navigationState = InitialNavigationState
  /\ \E draws \in InitialDraws :
       particles = << >> \o initializeParticles(currentPose, SpreadRadius, draws)
  /\ lastPosition = position
  /\ poseCalls = << >>
  /\ tick = Idle
  /\ ticks = 0
  /\ goalCalls = 0
  /\ halted = FALSE
  /\ pathGoal = << >>
  /\ ret = NoRet

\* particleFilter.predict(deltaPosition, deltaRotation)
PredictCall(deltaPosition) ==
  /\ ticks < MaxFilterCalls
  /\ particles' = << >> \o predict(particles, deltaPosition, 0, MotionDraws)
  /\ ticks' = ticks + 1
  /\ ret' = [op |-> "predict", threw |-> FALSE, resampled |-> FALSE, before |-> particles,
             delta |-> deltaPosition, readings |-> 0]
  /\ UNCHANGED <<position, rotation, map, currentPose, navigationState, lastPosition,
                 poseCalls, tick, goalCalls, halted, pathGoal>>

\* particleFilter.update(measurements); a throw leaves this.particles as
\* normalizeWeights left them
UpdateCall(measurements, draws) ==
  LET normalized == << >> \o updateWeights(particles, measurements)
      r == update(particles, measurements, draws)
  IN /\ ticks < MaxFilterCalls
     /\ particles' = IF r.threw THEN normalized ELSE << >> \o r.particles
     /\ ticks' = ticks + 1
     /\ ret' = [op |-> "update", threw |-> r.threw,
                resampled |-> resampleNeeded(normalized), before |-> normalized,
                delta |-> TVector(0, 0, 0), readings |-> Len(measurements)]
     /\ UNCHANGED <<position, rotation, map, currentPose, navigationState, lastPosition,
                    poseCalls, tick, goalCalls, halted, pathGoal>>

\* updatePose(position, rotation) run to its end after the robot moved by
\* deltaPosition: predict, update when the sensors gave occupied readings,
\* the estimate, lastPosition and the goal check
UpdatePoseCall(deltaPosition, scene) ==
  LET pos == TVector(lastPosition.x + deltaPosition.x, lastPosition.y + deltaPosition.y,
                     lastPosition.z + deltaPosition.z)
      predicted == << >> \o predict(particles, deltaPosition, 0, MotionDraws)
      sensorData == getSensorMeasurements(currentPose, scene)
      normalized == << >> \o updateWeights(predicted, sensorData)
      r == update(predicted, sensorData, ResampleDraws)
      threw == Len(sensorData) > 0 /\ r.threw
      after == IF Len(sensorData) = 0 THEN predicted
               ELSE IF r.threw THEN normalized
               ELSE << >> \o r.particles
      estimatedPose == getEstimatedPose(after)
      reached == /\ navigationState.isNavigating
                 /\ navigationState.currentGoal # << >>
                 /\ isGoalReached(estimatedPose, navigationState.currentGoal[1])
  IN /\ ~halted /\ ticks < MaxFilterCalls
     /\ particles' = after
     /\ ticks' = ticks + 1
     /\ position' = pos
     /\ currentPose' = IF threw THEN currentPose ELSE estimatedPose
     /\ lastPosition' = IF threw THEN lastPosition ELSE pos
     /\ navigationState' = IF ~threw /\ reached
                           THEN [navigationState EXCEPT !.isNavigating = FALSE, !.path = << >>]
                           ELSE navigationState
     /\ pathGoal' = IF ~threw /\ reached THEN << >> ELSE pathGoal
     /\ ret' = [op |-> "updatePose", threw |-> threw,
                resampled |-> Len(sensorData) > 0 /\ resampleNeeded(normalized),
                before |-> particles, delta |-> deltaPosition,
                readings |-> Len(sensorData)]
     /\ UNCHANGED <<rotation, map, poseCalls, tick, goalCalls, halted>>

FilterNext ==
  \/ \E deltaPosition \in FilterMoves : PredictCall(deltaPosition)
  \/ \E deltaPosition \in FilterMoves, scene \in {Open, [Open EXCEPT !.hits = <<Obstacle>>]} :
       UpdatePoseCall(deltaPosition, scene)
  \/ \E measurements \in MeasurementSets, draws \in ResampleDrawSets :
       UpdateCall(measurements, draws)

FilterSpec == FilterInit /\ [][FilterNext]_vars

(***************************************************************************)
(* One reading at a time: updateMap called with a single reading between   *)
(* calls of updatePose, which moves currentPose to the filter's estimate     *)
(***************************************************************************)
\* the points a ray can end in: the four of HitLists, the robot's own cell,
\* a far corner of the grid, a point outside the grid
HitHere == [x |-> -400, z |-> 0]
HitCorner == [x |-> 550, z |-> -150]
HitOutside == [x |-> 5000, z |-> 0]
RayHits == {HitAhead, HitBeyond, HitAside, HitBehind, HitHere, HitCorner, HitOutside}

RayInit ==
  /\ map = createEmptyMap(MapWidthCells * Resolution, MapHeightCells * Resolution)
  /\ currentPose \in {Pose(-400, 0, 0), Pose(200, -100, 0)}
  /\ position = TVector(currentPose.x, 1000, currentPose.y)
  /\ rotation = TVector(0, 0, 0)
  /\ navigationState = InitialNavigationState
  /\ particles = << >> \o initializeParticles(currentPose, SpreadRadius, MotionDraws)
  /\ lastPosition = position
  /\ poseCalls = << >>
  /\ tick = Idle
  /\ ticks = 0
  /\ goalCalls = 0
  /\ halted = FALSE
  /\ pathGoal = << >>
  /\ ret = NoRet

\* updateMap with the reading of the one ray that hits; the calls are counted
\* in goalCalls
RayCall(hit) ==
  /\ goalCalls < MaxGoalCalls
  /\ goalCalls' = goalCalls + 1
  /\ UpdateMapWith(lidarUpdate(position, <<hit>>))

\* updatePose runs once, before, between or after the readings
RayNext ==
  \/ ticks = 0 /\ \E scene \in WallScenes : UpdatePoseCall(TVector(0, 0, 0), scene)
  \/ \E hit \in RayHits : RayCall(hit)

RaySpec == RayInit /\ [][RayNext]_vars

(***************************************************************************)
(* VectorFieldHistogram.findBestDirection on its own (it keeps no state):  *)
(* one call; ret keeps the arguments and the angle returned                *)
(***************************************************************************)
\* a reading of an obstacle 0.5 m away in the middle of a sector
SectorReading(sector) ==
  LET angle == sectorToAngle(sector)
  IN [point |-> TVector(FMul(500, FCos(angle)), RayHeight, FMul(500, FCos(angle - PI \div 2))),
      distance |-> 500, occupied |-> TRUE]

\* obstacles in the sectors lo .. hi
Arc(lo, hi) == [i \in 1 .. hi - lo + 1 |-> SectorReading(lo + i - 1)]

\* what the sensors show: nothing, obstacles all around, all around but for
\* two adjacent sectors, all around but for two gaps, on one side, far away
VfhReadings ==
  {<< >>,
   Arc(0, NumSectors - 1),
   Arc(2, NumSectors - 1),
   Arc(2, 35) \o Arc(38, NumSectors - 1),
   Arc(0, 35),
   <<[SectorReading(0) EXCEPT !.distance = MaxRange + 1]>>}

TargetAngles == {0, sectorToAngle(0), sectorToAngle(1) - 1, PI \div 2, PI, -(PI \div 2), NaN}
Velocities == {TVector(0, 0, 0), TVector(1000, 0, 42), TVector(1000, 0, 128),
               TVector(-1000, 0, 0), TVector(NaN, 0, NaN)}

VfhInit == RayInit

FindBestDirectionCall(sensorData, targetAngle, currentVelocity) ==
  /\ ret.op = "none"
  /\ ret' = [op |-> "findBestDirection", sensorData |-> sensorData,
             targetAngle |-> targetAngle, currentVelocity |-> currentVelocity,
             result |-> findBestDirection(sensorData, targetAngle, currentVelocity)]
  /\ UNCHANGED <<position, rotation, map, currentPose, navigationState, particles,
                 lastPosition, poseCalls, tick, ticks, goalCalls, halted, pathGoal>>

VfhNext ==
  \E sensorData \in VfhReadings, targetAngle \in TargetAngles, currentVelocity \in Velocities :
     FindBestDirectionCall(sensorData, targetAngle, currentVelocity)

VfhSpec == VfhInit /\ [][VfhNext]_vars

(***************************************************************************)
(* PathPlanner.planPath step by step: tick is the frame of the call (its   *)
(* arguments, nodes, the loop counter i, the attempts of the sampling under *)
(* way, the Pose objects: heap[1] is the caller's start, heap[2] its goal)  *)
(* and every passage of a loop is one step.  The clock may run out at the   *)
(* head of any iteration.                                                  *)
(***************************************************************************)
\* attempts of sampleFreeSpace (100 in the program)
SampleAttempts == 2

\* a grid whose middle cell is occupied: the draw <<500, 500>> falls on it
MapWithMiddleObstacle == MapWithObstacle(MapHeightCells \div 2, MapWidthCells \div 2)

PlanRunInit ==
  /\ map \in {createEmptyMap(MapWidthCells * Resolution, MapHeightCells * Resolution),
              MapWithMiddleObstacle}
  /\ currentPose \in PlannerStarts \cup {Pose(NaN, NaN, NaN)}
  /\ position = TVector(-400, 1000, 0)
  /\ rotation = TVector(0, 0, 0)
  /\ navigationState = InitialNavigationState
  /\ particles = initializeParticles(Pose(-400, 0, 0), SpreadRadius, MotionDraws)
  /\ lastPosition = position
  /\ poseCalls = << >>
  /\ \E goal \in Goals :
       tick = [pc |-> "enter", i |-> 0, attempts |-> 0, nodes |-> << >>,
               start |-> currentPose, goal |-> goal.pose, result |-> << >>,
               end |-> "running", gaveUp |-> FALSE,
               heap |-> <<currentPose, goal.pose>>]
  /\ ticks = 0
  /\ goalCalls = 0
  /\ halted = FALSE
  /\ pathGoal = << >>
  /\ ret = NoRet

Return(frame, path, end) == [frame EXCEPT !.pc = "done", !.result = path, !.end = end]

\* an iteration that adds nothing to the tree, or has added a node, ends: i++
ContinueSameIteration(frame) == [frame EXCEPT !.pc = "loop"]

Continue(frame) == [frame EXCEPT !.pc = "loop", !.i = @ + 1]

\* lines 49-61: the tree grows towards target, or not.  With a NaN start the
\* nearest node is nodes[0], the new node is NaN, isValidPath samples nothing
\* and no distance is below the goal's radius.
GrowTree(frame, target) ==
  IF IsNaN(frame.start.x) \/ IsNaN(frame.start.y)
  THEN Continue([frame EXCEPT !.nodes = Append(@, [x |-> NaN, y |-> NaN, parent |-> 1])])
  ELSE LET nearest == findNearestNode(frame.nodes, target)
           newNode == extend(frame.nodes[nearest], nearest, target)
           nodes == Append(frame.nodes, newNode)
       IN IF ~isValidPath(frame.nodes[nearest], newNode, map) THEN Continue(frame)
          ELSE IF distanceBetween(newNode, frame.goal) < (StepSize * 3) \div 2
          THEN LET made == extractPathOnHeap(frame.heap, nodes, Len(nodes), 1, 2)
               IN Return([frame EXCEPT !.nodes = nodes, !.heap = made.heap],
                         [k \in 1 .. Len(made.path) |-> made.heap[made.path[k]]], "found")
          ELSE Continue([frame EXCEPT !.nodes = nodes])

PlanSteps(f) == tick' = f /\ UNCHANGED <<position, rotation, map, currentPose,
     navigationState, particles, lastPosition, poseCalls, ticks, goalCalls, halted,
     pathGoal, ret>>

\* lines 18-36: the root of the tree and the test of start and goal; a NaN
\* start passes isValidNode (no comparison holds, no cell is read)
PlanEnter ==
  /\ tick.pc = "enter"
  /\ LET frame == [tick EXCEPT !.nodes = <<[x |-> tick.start.x, y |-> tick.start.y,
                                            parent |-> 0]>>]
         startValid == IsNaN(tick.start.x) \/ IsNaN(tick.start.y)
                         \/ isValidNode(plannerWorldToGrid(tick.start, map), map)
     IN PlanSteps(IF startValid /\ isValidNode(plannerWorldToGrid(tick.goal, map), map)
                  THEN [frame EXCEPT !.pc = "loop"]
                  ELSE Return(frame, << >>, "invalid"))

\* line 38 with i = maxIterations, lines 64-65
LoopExhausted ==
  /\ tick.pc = "loop" /\ tick.i >= PlanIterations
  /\ PlanSteps(Return(tick, << >>, "exhausted"))

\* lines 39-42
LoopTimeout ==
  /\ tick.pc = "loop" /\ tick.i < PlanIterations
  /\ PlanSteps(Return(tick, << >>, "timeout"))

\* lines 44-61 when Math.random() < goalBias
LoopTowardsGoal ==
  /\ tick.pc = "loop" /\ tick.i < PlanIterations
  /\ PlanSteps(GrowTree(tick, [x |-> tick.goal.x, y |-> tick.goal.y]))

\* lines 44-47 otherwise: sampleFreeSpace is entered
LoopSamples ==
  /\ tick.pc = "loop" /\ tick.i < PlanIterations
  /\ PlanSteps([tick EXCEPT !.pc = "sample", !.attempts = 0])

\* lines 69-77: one attempt of sampleFreeSpace
SampleAttempt(draw) ==
  /\ tick.pc = "sample" /\ tick.attempts < SampleAttempts
  /\ LET point == SamplePoint(draw, map)
     IN PlanSteps(IF ValidAt(point.x, point.y, map) THEN GrowTree(tick, point)
                  ELSE [tick EXCEPT !.attempts = @ + 1])

\* lines 78-81: after the last attempt any point is returned
SampleGivesUp(draw) ==
  /\ tick.pc = "sample" /\ tick.attempts >= SampleAttempts
  /\ PlanSteps(GrowTree([tick EXCEPT !.gaveUp = TRUE], SamplePoint(draw, map)))

PlanRunNext ==
  \/ PlanEnter
  \/ LoopExhausted
  \/ LoopTimeout
  \/ LoopTowardsGoal
  \/ LoopSamples
  \/ \E draw \in PlannerDraws : SampleAttempt(draw)
  \/ \E draw \in PlannerDraws : SampleGivesUp(draw)

PlanRunSpec == PlanRunInit /\ [][PlanRunNext]_vars

(***************************************************************************)
(* NavigationSystem.getVelocityCommand awaited on its own: any sequence of *)
(* calls, each run to its end before the next operation, between calls of   *)
(* updateMap, while the robot stands still                                  *)
(***************************************************************************)
\* navigationState after setGoal(GoalNear) found the two-pose path, and after
\* a setGoal that found none
NavigatingNear ==
  setGoal(InitialNavigationState, GoalNear, <<Pose(-400, 0, 0), GoalNear.pose>>)
PlanningFailed == setGoal(InitialNavigationState, GoalOutside, << >>)

CommandInit ==
  /\ map = createEmptyMap(MapWidthCells * Resolution, MapHeightCells * Resolution)
  /\ currentPose \in {Pose(-400, 0, 0), Pose(-400, 50, 0)}
  /\ position = TVector(currentPose.x, 1000, currentPose.y)
  /\ rotation = TVector(0, 0, 0)
  /\ navigationState \in {InitialNavigationState, NavigatingInside, NavigatingNear,
                          PlanningFailed}
  /\ particles = initializeParticles(currentPose, SpreadRadius, MotionDraws)
  /\ lastPosition = position
  /\ poseCalls = << >>
  /\ tick = Idle
  /\ ticks = 0
  /\ goalCalls = 0
  /\ halted = FALSE
  /\ pathGoal = IF navigationState.path = << >> THEN << >> ELSE navigationState.currentGoal
  /\ ret = NoRet

\* getVelocityCommand from its guard to its return; a sensor that raises
\* rejects the call
VelocityCall(scene) ==
  LET sensorData == getSensorMeasurements(currentPose, scene)
      c == velocityCommand(navigationState, currentPose, sensorData)
      base == [NoRet EXCEPT !.op = "velocity", !.before = navigationState]
  IN /\ ~halted
     /\ IF \/ ~navigationState.isNavigating
           \/ navigationState.path = << >>
           \/ Len(navigationState.path[1]) = 0
        THEN ret' = base /\ UNCHANGED navigationState
        ELSE IF scene.throws
        THEN /\ ret' = [base EXCEPT !.threw = TRUE, !.sensorFailed = TRUE]
             /\ UNCHANGED navigationState
        ELSE /\ navigationState' = [navigationState EXCEPT !.path = c.path]
             /\ ret' = [base EXCEPT !.emergency = c.emergency, !.followed = c.followed,
                                    !.linear = c.linear, !.angular = c.angular,
                                    !.minDistance = MinDistance(sensorData)]
     /\ UNCHANGED <<position, rotation, map, currentPose, particles, lastPosition,
                    poseCalls, tick, ticks, goalCalls, halted, pathGoal>>

CommandNext ==
  \/ \E scene \in Scenes \cup {[Open EXCEPT !.hits = <<HitBeyond>>]} : VelocityCall(scene)
  \/ \E hits \in {<<HitAhead>>, <<HitAside, HitBeyond>>} : UpdateMapCall(hits)

CommandSpec == CommandInit /\ [][CommandNext]_vars

(***************************************************************************)
(* Properties                                                              *)
(*                                                                         *)
(* ret describes the step just taken, so a formula ret.op = ... => P says   *)
(* that P holds when that operation returns.                               *)
(***************************************************************************)
Following ==
  /\ navigationState.isNavigating
  /\ navigationState.path # << >>
  /\ Len(navigationState.path[1]) > 0

InRange(v, lo, hi) == ~IsNaN(v) /\ lo <= v /\ v <= hi

\* C1: when setGoal is called and planPath returns the empty path, then on
\* return status is failed, lastError is "No path found to goal" and
\* isNavigating is false
SetGoalFailureStops ==
  (ret.op = "setGoal" /\ Len(ret.planned) = 0) =>
     /\ navigationState.status = "failed"
     /\ navigationState.lastError = <<"No path found to goal">>
     /\ ~navigationState.isNavigating

\* C2: setGoal supersedes the prior goal: whenever the controller is following
\* a path, that path was planned for the current goal (also when planning to
\* the new goal failed)
FollowedPathIsForCurrentGoal ==
  Following => pathGoal = navigationState.currentGoal

\* C3: when setGoal is called and planPath returns a non-empty path, then on
\* return the path is stored, isNavigating is true and status is moving
SetGoalSuccessMoves ==
  (ret.op = "setGoal" /\ Len(ret.planned) > 0) =>
     /\ navigationState.path = <<ret.planned>>
     /\ navigationState.isNavigating
     /\ navigationState.status = "moving"

\* C4: when updatePose completes while navigating and the new estimate is
\* within the goal's tolerances, the path is cleared, isNavigating is false and
\* status is goal_reached
GoalReachedIsReported ==
  (/\ ret.op = "updatePose" /\ ret.reached
   /\ isGoalReached(currentPose, navigationState.currentGoal[1])) =>
     /\ navigationState.path = << >>
     /\ ~navigationState.isNavigating
     /\ navigationState.status = "goal_reached"

\* C5: when updateMap finds the path invalid and the replanning returns the
\* empty path, then on return isNavigating is false, the path is cleared and
\* status is blocked
BlockedIsReported ==
  (ret.op = "updateMap" /\ ret.replanned /\ Len(ret.planned) = 0) =>
     /\ ~navigationState.isNavigating
     /\ navigationState.path = << >>
     /\ navigationState.status = "blocked"

\* C6: in every interleaving of a tick, getVelocityCommand does not throw when
\* the sensors answer: the path it tested before the await is still there when
\* it reads path[0]
VelocityCommandNeverThrows ==
  (ret.op = "velocity" /\ ~ret.sensorFailed) => ~ret.threw

\* C7: within a tick, the updatePose of the tick has completed before the
\* updateMap of the tick starts to integrate the readings
PoseCompletesBeforeMap ==
  ret.op = "updateMap" => ~ret.poseInFlight

\* C8: when a sensor raises during updatePose, the call completes without
\* raising and lastPosition is the position the call was given
SensorFailureIsAbsorbed ==
  (ret.op = "updatePose" /\ ret.sensorFailed) =>
     /\ ~ret.threw
     /\ lastPosition = ret.position

\* C9: every command getVelocityCommand returns has angular in [-1, 1] and
\* linear in [0, 0.5]
CommandWithinLimits ==
  (ret.op = "velocity" /\ ~ret.threw) =>
     /\ InRange(ret.linear, 0, MaxLinearSpeed)
     /\ InRange(ret.angular, -MaxAngularSpeed, MaxAngularSpeed)

\* C10: emergency stop: when getVelocityCommand, called while following a path,
\* gathers a reading nearer than 0.3 m, it returns (0, 0) and leaves path,
\* isNavigating, currentGoal and status as they were
EmergencyStopChangesNothing ==
  (ret.op = "velocity" /\ ~ret.threw /\ ret.minDistance < EmergencyDistance) =>
     /\ ret.linear = 0
     /\ ret.angular = 0
     /\ navigationState = ret.before

\* C10, its case: an emergency stop taken while a path is being followed
EmergencyStopTaken ==
  /\ ret.op = "velocity" /\ ~ret.threw
  /\ ret.minDistance < EmergencyDistance
  /\ Following

\* the goal pose of the last setGoal
PlannedGoal == navigationState.currentGoal[1].pose

\* C11: every segment between consecutive poses of a non-empty path planPath
\* returns, the first one leaving start and the last one entering goal
\* included, has all its sampled points in cells that pass the inflated
\* traversability test of the map
PlannedSegmentsAreTraversable ==
  (ret.op = "setGoal" /\ Len(ret.planned) > 0) =>
     \A i \in 1 .. Len(ret.planned) - 1 :
        isValidPath(ret.planned[i], ret.planned[i + 1], map)

\* C12: a path planPath returns is empty, or has at least 2 poses, the first
\* with the (x, y) of start and the last with the (x, y) of goal
PlannedPathJoinsStartAndGoal ==
  ret.op = "setGoal" =>
     \/ Len(ret.planned) = 0
     \/ /\ Len(ret.planned) >= 2
        /\ ret.planned[1].x = currentPose.x
        /\ ret.planned[1].y = currentPose.y
        /\ ret.planned[Len(ret.planned)].x = PlannedGoal.x
        /\ ret.planned[Len(ret.planned)].y = PlannedGoal.y

\* C12, its case: planPath returned a path through a node of the tree
PathThroughTreeFound ==
  ret.op = "setGoal" /\ Len(ret.planned) >= 3

\* the cell of a pose is out of the grid, or an in-bounds cell of the 5x5
\* square around it is occupied or has probability > 0.5
CellFails(pose, m) ==
  LET cell == worldToGrid(m, pose.x, pose.y)
  IN \/ ~InBounds(m, cell.row, cell.col)
     \/ \E dr \in -2 .. 2, dc \in -2 .. 2 :
          /\ InBounds(m, cell.row + dr, cell.col + dc)
          /\ \/ m.cells[<<cell.row + dr, cell.col + dc>>].occupied
             \/ m.cells[<<cell.row + dr, cell.col + dc>>].probability > 500

\* C13: planPath returns the empty path (the tree is grown by the main loop
\* only, which is not entered) whenever the cell of start or the cell of goal
\* fails the inflated traversability test
InvalidEndpointsGiveNoPath ==
  (ret.op = "setGoal" /\ (CellFails(currentPose, map) \/ CellFails(PlannedGoal, map))) =>
     Len(ret.planned) = 0

\* C13, its case: planPath called with a goal inside the grid that has an
\* obstacle in its square, from a start that passes
GoalBesideObstaclePlanned ==
  /\ ret.op = "setGoal"
  /\ ~CellFails(currentPose, map)
  /\ InBounds(map, worldToGrid(map, PlannedGoal.x, PlannedGoal.y).row,
              worldToGrid(map, PlannedGoal.x, PlannedGoal.y).col)
  /\ CellFails(PlannedGoal, map)

\* navigation has ended at the goal
Arrived ==
  /\ ~navigationState.isNavigating
  /\ navigationState.status = "goal_reached"
  /\ FLt(FHypot(FSub(currentPose.x, PlannedGoal.x), FSub(currentPose.y, PlannedGoal.y)),
         IF navigationState.currentGoal[1].tolerance = << >> THEN GOAL_POSITION_TOLERANCE
         ELSE navigationState.currentGoal[1].tolerance[1].position)

\* the loop has come to rest after a setGoal that succeeded: the tick returned
\* the zero command and left the navigation state as it was, so every later
\* tick does the same
DriveAtRest ==
  /\ ret.op = "tick"
  /\ navigationState.currentGoal # << >>
  /\ navigationState.status # "failed"
  /\ ret.linear = 0 /\ ret.angular = 0
  /\ ret.before = navigationState

\* C14: in an empty world with exact odometry, once setGoal has succeeded the
\* repeated tick eventually reaches a state with isNavigating false, status
\* goal_reached and the robot within the goal's position tolerance, and never
\* gets stuck navigating with a zero command: the run is deterministic, so
\* where it comes to rest is where it stays, and it must rest arrived
DriveRestsArrived == DriveAtRest => Arrived

\* the goal set is at the current pose, within the goal's tolerances, and
\* planning to it did not fail
GoalAtCurrentPose ==
  /\ navigationState.currentGoal # << >>
  /\ navigationState.status # "failed"
  /\ isGoalReached(currentPose, navigationState.currentGoal[1])

\* C15: after setGoal with a goal that equals currentPose within the
\* tolerances, the next updatePose leaves status goal_reached, and every
\* command getVelocityCommand returns has linear = 0
GoalAtPoseReachedWithoutMotion ==
  (GoalAtCurrentPose /\ ~ret.threw) =>
     /\ ret.op = "updatePose" => navigationState.status = "goal_reached"
     /\ ret.op = "velocity" => ret.linear = 0

\* C16: integrating a batch is idempotent on the grid: applying updateMap
\* again with the same batch from the same pose leaves occupied and
\* probability of every cell as the first application left them
IntegrateIsIdempotent ==
  ret.op = "updateMap" =>
     Integrate(map, currentPose, ret.batch).cells = map.cells

\* C16, its case: a batch of two readings, the hit cell of one lying on the ray
\* of the other, has been integrated
CrossingBatchIntegrated ==
  /\ ret.op = "updateMap"
  /\ Len(ret.batch) = 2
  /\ map.cells[<<3, 8>>].probability # 500
  /\ map.cells[<<3, 12>>].occupied

\* C17: every cell of the grid has probability in [0, 1], and every occupied
\* cell has probability >= 0.5
CellsAreConsistent ==
  \A rc \in DOMAIN map.cells :
     /\ InRange(map.cells[rc].probability, 0, 1000)
     /\ map.cells[rc].occupied => map.cells[rc].probability >= 500

\* C17, its case: a cell that an earlier batch had marked free has been hit
FreedCellHit ==
  /\ ret.op = "updateMap"
  /\ ret.batch # << >>
  /\ map.cells[<<3, 8>>].occupied
  /\ map.cells[<<3, 12>>].occupied

\* some sampled point of some segment of the path is in an occupied cell or
\* one with probability > 0.5
PathBlocked(m, path) ==
  /\ path # << >>
  /\ \E i \in 1 .. Len(path[1]) - 1 : SegmentBlocked(m, path[1][i], path[1][i + 1])

\* C18: updateMap replans only when the batch brought a significant change,
\* the controller is navigating with a goal, and a sampled point of the path is
\* in a blocked cell; otherwise, a path of fewer than 2 poses included, path
\* and isNavigating are left as they were
ReplansOnlyBlockedPath ==
  ret.op = "updateMap" =>
     \/ /\ ret.before.isNavigating
        /\ ret.before.currentGoal # << >>
        /\ PathBlocked(map, ret.before.path)
     \/ /\ ~ret.replanned
        /\ navigationState.path = ret.before.path
        /\ navigationState.isNavigating = ret.before.isNavigating

\* C19: after every update call the weights are numbers that sum to 1 (to the
\* rounding of one unit per particle): a zero sum is replaced by weights 1/N
\* and never divided by
WeightsSumToOne ==
  (ret.op = "update" /\ ~ret.threw) =>
     /\ \A i \in 1 .. Len(particles) : ~IsNaN(particles[i].weight)
     /\ Abs(SeqSum([i \in 1 .. Len(particles) |-> particles[i].weight]) - 1000)
          <= NumParticles

\* C20: the filter always holds N particles, and whenever update resamples,
\* a valid index is selected for each of the N new particles: each is a copy
\* of the pose of a particle that was there and has weight 1/N
ResampleCopiesParticles ==
  /\ Len(particles) = NumParticles
  /\ (ret.op = "update" /\ ret.resampled) =>
        /\ ~ret.threw
        /\ \A i \in 1 .. NumParticles :
              /\ particles[i].weight = 1000 \div NumParticles
              /\ \E j \in 1 .. NumParticles : particles[i].pose = ret.before[j].pose

\* C21: when updatePose runs and the sensors yield no occupied reading,
\* predict moves every particle but no weight changes and nothing is
\* resampled; predict on its own never changes a weight
PredictKeepsWeights ==
  (ret.op = "predict" \/ (ret.op = "updatePose" /\ ret.readings = 0)) =>
     /\ ~ret.resampled
     /\ \A i \in 1 .. NumParticles :
           /\ particles[i].weight = ret.before[i].weight
           /\ particles[i].pose.x = ret.before[i].pose.x + ret.delta.x
           /\ particles[i].pose.y = ret.before[i].pose.y + ret.delta.z

\* C21, its case: updatePose without readings after the robot moved, on
\* particles whose weights differ
MovedWithoutReadings ==
  /\ ret.op = "updatePose" /\ ret.readings = 0
  /\ ret.delta.x # 0
  /\ \E i \in 1 .. NumParticles : ret.before[i].weight # ret.before[1].weight

\* the cell of the grid a reading's point falls in, and the robot's cell
HitCell(reading) == worldToGrid(map, reading.point.x, reading.point.y)
RobotCell == worldToGrid(map, currentPose.x, currentPose.y)
Adjacent8(p, q) ==
  /\ Abs(p.row - q.row) <= 1 /\ Abs(p.col - q.col) <= 1
  /\ p # q

\* the cells of map' are what integrating the walk leaves: the hit cell
\* occupied at 0.95, the other cells of the walk free at 0.10, the rest as in map
WalkIntegrated(walk, hit) ==
  \A rc \in DOMAIN map.cells :
     LET cell == [row |-> rc[1], col |-> rc[2]]
     IN IF cell = hit
        THEN map'.cells[rc].probability = 950 /\ map'.cells[rc].occupied
        ELSE IF \E k \in 1 .. Len(walk) : walk[k] = cell
        THEN map'.cells[rc].probability = 100 /\ ~map'.cells[rc].occupied
        ELSE map'.cells[rc] = map.cells[rc]

\* an updateMap step with one occupied reading whose hit cell is in the grid
SingleRayStep ==
  /\ ret'.op = "updateMap"
  /\ Len(ret'.batch) = 1
  /\ ret'.batch[1].occupied
  /\ InBounds(map, HitCell(ret'.batch[1]).row, HitCell(ret'.batch[1]).col)

\* C22: integrating one occupied reading whose hit cell is in bounds walks a
\* line of cells from the robot cell to the hit cell, each step to an
\* 8-adjacent cell, and ends; then the hit cell is occupied at 0.95, the other
\* in-bounds cells of the walk are free at 0.10, every other cell is unchanged
SingleRayIntegrated ==
  [][SingleRayStep =>
       /\ ~halted'
       /\ LET hit == HitCell(ret'.batch[1])
              walk == bresenham(RobotCell.row, RobotCell.col, hit.row, hit.col)
          IN /\ walk[1] = RobotCell
             /\ walk[Len(walk)] = hit
             /\ \A k \in 1 .. Len(walk) - 1 : Adjacent8(walk[k], walk[k + 1])
             /\ WalkIntegrated(walk, hit)]_vars

\* the same for the steps taken from a pose that is a number
FiniteRayIntegrated ==
  [][(SingleRayStep /\ ~IsNaN(currentPose.x)) =>
       /\ ~halted'
       /\ LET hit == HitCell(ret'.batch[1])
              walk == bresenham(RobotCell.row, RobotCell.col, hit.row, hit.col)
          IN /\ walk[1] = RobotCell
             /\ walk[Len(walk)] = hit
             /\ \A k \in 1 .. Len(walk) - 1 : Adjacent8(walk[k], walk[k + 1])
             /\ WalkIntegrated(walk, hit)]_vars

\* updateMap skips the reading: it is not occupied, or its point is in no cell
Skipped(reading) ==
  \/ ~reading.occupied
  \/ ~InBounds(map, HitCell(reading).row, HitCell(reading).col)

\* C23: a batch made only of readings that are not occupied or whose hit cell
\* is outside the grid changes no cell, reports no significant change and
\* leaves path, isNavigating and status as they were
SkippedBatchChangesNothing ==
  [][(ret'.op = "updateMap" /\ \A i \in 1 .. Len(ret'.batch) : Skipped(ret'.batch[i])) =>
       /\ map' = map
       /\ ~Integrate(map, currentPose, ret'.batch).significantChange
       /\ ~ret'.replanned
       /\ navigationState' = navigationState]_vars

\* C23, its case: a batch with a reading of each kind was given to updateMap
\* while the controller was navigating on a grid that holds an occupied cell
SkippedBatchIntegrated ==
  /\ ret.op = "updateMap"
  /\ \A i \in 1 .. Len(ret.batch) : Skipped(ret.batch[i])
  /\ \E i \in 1 .. Len(ret.batch) : ~ret.batch[i].occupied
  /\ \E i \in 1 .. Len(ret.batch) : ret.batch[i].occupied
  /\ navigationState.isNavigating
  /\ \E rc \in DOMAIN map.cells : map.cells[rc].occupied

\* the smoothed densities of the call ret describes, its valley sectors, the
\* heading atan2(vel.z, vel.x) and the cost of a sector's centre
Smoothed == smoothHistogram(BuildHistogram(ret.sensorData))
Valleys ==
  {i \in 0 .. NumSectors - 1 :
     /\ Smoothed[i] < ValleyThreshold
     /\ Smoothed[i] <= Smoothed[(i + NumSectors - 1) % NumSectors]
     /\ Smoothed[i] <= Smoothed[(i + 1) % NumSectors]}
Heading == FAtan2(ret.currentVelocity.z, ret.currentVelocity.x)
CostOf(i) ==
  LET v == sectorToAngle(i)
  IN IF IsNaN(ret.targetAngle) \/ IsNaN(Heading) THEN NaN
     ELSE (Alpha * Abs(WrapAngle(v - ret.targetAngle))
             + Beta * Abs(WrapAngle(v - Heading))) \div 1000
\* the result is the centre of a valley of least cost, the lowest such sector
CheapestValleyReturned ==
  \E i \in Valleys :
     /\ ret.result = sectorToAngle(i)
     /\ \A j \in Valleys : CostOf(i) <= CostOf(j) /\ (CostOf(j) = CostOf(i) => i <= j)

\* C24 as stated: the heading is returned if and only if no sector is a
\* valley, otherwise the centre of the cheapest valley (lowest index on ties),
\* and never the centre of a sector whose smoothed density is 0.3 or more
BestDirectionAsStated ==
  ret.op = "findBestDirection" =>
     /\ (ret.result = Heading) <=> (Valleys = {})
     /\ Valleys # {} => CheapestValleyReturned
     /\ \A i \in 0 .. NumSectors - 1 :
           Smoothed[i] >= ValleyThreshold => ret.result # sectorToAngle(i)

\* C24: with no valley sector the heading atan2(vel.z, vel.x) is returned,
\* whatever sector it points into; otherwise the centre of a valley sector of
\* least cost is returned, the lowest-index one on ties, which is the centre
\* of a sector with smoothed density below 0.3
BestDirectionIsCheapestValley ==
  ret.op = "findBestDirection" =>
     IF Valleys = {} THEN ret.result = Heading
     ELSE /\ CheapestValleyReturned
          /\ \A i \in 0 .. NumSectors - 1 :
                ret.result = sectorToAngle(i) => Smoothed[i] < ValleyThreshold

\* C24, its case: some sectors are valleys and some are blocked, two valleys
\* cost the same, and the angle returned is not the heading
TiedValleysCompared ==
  /\ ret.op = "findBestDirection"
  /\ \E i, j \in Valleys : i # j /\ CostOf(i) = CostOf(j) /\ ret.result = sectorToAngle(i)
  /\ \E i \in 0 .. NumSectors - 1 : Smoothed[i] >= ValleyThreshold
  /\ ~IsNaN(ret.result)
  /\ ret.result # Heading

\* what is left of planPath to run: the iterations not yet done, each with
\* its attempts and its own step, then the return
PlanMeasure(frame) ==
  IF frame.pc = "done" THEN 0
  ELSE IF frame.pc = "enter" THEN (PlanIterations + 1) * (SampleAttempts + 2) + 1
  ELSE (PlanIterations - frame.i) * (SampleAttempts + 2) + 1
         + (IF frame.pc = "sample" THEN SampleAttempts - frame.attempts
            ELSE SampleAttempts + 1)

\* C25: planPath terminates (every step brings its end nearer), its main loop
\* makes at most maxIterations iterations and a sampling at most its 100
\* attempts, and when the iterations or the clock run out before a node comes
\* within 1.5 stepSize of the goal the empty path is returned
PlanPathTerminates ==
  [][/\ PlanMeasure(tick') < PlanMeasure(tick)
     /\ PlanMeasure(tick') >= 0
     /\ tick'.i <= PlanIterations
     /\ tick'.attempts <= SampleAttempts
     /\ tick'.end \in {"exhausted", "timeout"} => tick'.result = << >>
     /\ tick'.result # << >> =>
          /\ tick'.end = "found"
          /\ distanceBetween(tick'.nodes[Len(tick'.nodes)], tick'.goal)
               < (StepSize * 3) \div 2]_vars

\* C25, its case: the iterations ran out after a sampling used up its attempts
\* and the tree had grown
IterationsExhausted ==
  /\ tick.pc = "done" /\ tick.end = "exhausted"
  /\ tick.gaveUp
  /\ tick.i = PlanIterations
  /\ Len(tick.nodes) > 1

\* C26: planPath changes no cell of the grid and leaves the start and goal
\* objects it was given as they were, whether it returns a path or none; the
\* headings of the path it returns are written to copies
PlanPathOnlyReads ==
  [][/\ map' = map
     /\ tick'.heap[1] = tick'.start
     /\ tick'.heap[2] = tick'.goal
     /\ tick'.end = "found" =>
          tick'.result = extractPath(tick'.nodes, Len(tick'.nodes), tick'.start, tick'.goal)
     /\ tick'.end \in {"invalid", "exhausted", "timeout"} => tick'.heap = tick.heap]_vars

\* C26, its case: a path of more than two poses was returned whose first
\* heading is not the heading of the start pose
HeadingWrittenToCopy ==
  /\ tick.pc = "done" /\ tick.end = "found"
  /\ Len(tick.result) > 2
  /\ tick.result[1].theta # tick.start.theta
  /\ tick.result[Len(tick.result)].theta # tick.goal.theta

\* C27: lastError is set exactly when status is failed: a step to planning
\* leaves lastError unset, and only a setGoal whose planning failed sets it
LastErrorIffFailed ==
  [][/\ (navigationState'.lastError # << >>) <=> (navigationState'.status = "failed")
     /\ navigationState'.status = "planning" => navigationState'.lastError = << >>
     /\ (navigationState'.lastError # << >> /\ navigationState.lastError = << >>) =>
          (ret'.op = "setGoal" /\ Len(ret'.planned) = 0)]_vars

\* C27, its case: a setGoal failed after an earlier one had found a path,
\* and left its error
FailedAfterPlanned ==
  /\ ret.op = "setGoal" /\ Len(ret.planned) = 0
  /\ goalCalls > 1
  /\ pathGoal # << >>
  /\ navigationState.status = "failed"
  /\ navigationState.lastError # << >>

\* C28: whenever isNavigating is true the path is defined and holds at least
\* one pose
NavigatingHasPath ==
  navigationState.isNavigating =>
     /\ navigationState.path # << >>
     /\ Len(navigationState.path[1]) > 0

\* the first waypoint is less than 0.3 m from currentPose
FirstWaypointNear ==
  LET target == navigationState.path[1][1]
  IN FLt(FHypot(FSub(target.x, currentPose.x), FSub(target.y, currentPose.y)),
         WaypointReached)

\* C29: getVelocityCommand changes nothing of the navigation state but the
\* path: status, lastError, isNavigating, currentGoal, currentPose and the
\* grid stay; the path stays too or loses its first pose, and only when that
\* pose is less than 0.3 m from currentPose; when the path is emptied so the
\* command is (0, 0)
VelocityCommandOnlyShifts ==
  [][ret'.op = "velocity" =>
       /\ navigationState'.status = navigationState.status
       /\ navigationState'.lastError = navigationState.lastError
       /\ navigationState'.isNavigating = navigationState.isNavigating
       /\ navigationState'.currentGoal = navigationState.currentGoal
       /\ currentPose' = currentPose
       /\ map' = map
       /\ \/ navigationState'.path = navigationState.path
          \/ /\ navigationState.path # << >>
             /\ Len(navigationState.path[1]) > 0
             /\ navigationState'.path = <<Tail(navigationState.path[1])>>
             /\ FirstWaypointNear
             /\ Len(navigationState.path[1]) = 1 => (ret'.linear = 0 /\ ret'.angular = 0)]_vars

\* C29, its case: a call removed the last waypoint of the path, on a grid
\* that holds an occupied cell
LastWaypointShifted ==
  /\ ret.op = "velocity" /\ ret.followed
  /\ ret.before.path # << >>
  /\ Len(ret.before.path[1]) = 1
  /\ navigationState.path = << << >> >>
  /\ navigationState.isNavigating
  /\ \E rc \in DOMAIN map.cells : map.cells[rc].occupied

\* C30: once updateMap has integrated a batch from a pose, integrating the
\* same batch again from that pose reports no significant change (no touched
\* cell changes its probability by more than 0.3)
SteadyViewIsInsignificant ==
  ret.op = "updateMap" =>
     ~Integrate(map, currentPose, ret.batch).significantChange

=============================================================================
